---------------------------- MODULE Spec2Model ----------------------------
(***************************************************************************)
(* Model of the employee-onboarding API (backend/app):                     *)
(*   routers/service_auth.py  API-key authentication of services, the      *)
(*                            in-memory rate limiter, service tokens        *)
(*   routers/employees.py     user authentication resolution and the       *)
(*                            role-gated employee routes                    *)
(*   routers/auth.py          password login                               *)
(* Strings that the code takes apart (the Authorization header) are        *)
(* sequences of atoms; tokens are records carrying their payload and the   *)
(* signature they were issued with.                                        *)
(***************************************************************************)
EXTENDS Integers, Sequences, FiniteSets, TLC

VARIABLES
    now,                \* int(time.time())
    rate_limit_store,   \* service_auth.rate_limit_store: key -> {count, reset_at}
    window,             \* history: per key, start and request count of its window
    last,               \* history: the last request handled and its response
    heap,               \* the dict objects that are or were values of rate_limit_store
    store_ref,          \* key -> index in heap of the dict rate_limit_store[key]
    th,                 \* per worker thread: position in _check_rate_limit and locals
    burst,              \* history: requests begun and allowed at the instant now
    employees           \* the rows of the store's employees table, in insertion order

rateVars == <<rate_limit_store, window>>
concVars == <<heap, store_ref, th, burst>>
vars == <<now, rate_limit_store, window, last, heap, store_ref, th, burst, employees>>

None == "<None>"

\* ------------------------------------------------------------ constants

RATE_LIMIT_MAX == 100

RATE_LIMIT_WINDOW == 60

SERVICE_TOKEN_LIFETIME == 3600

\* ------------------------------------------------------------ bounds

\* the clock of the rate-limit specifications advances in steps of RateTick
RateTick == 30

MaxRateTime == 60

\* requests counted on one key before the model stops sending to it
MaxCount == 102

\* while one key is driven beyond MaxOther requests, every other key stays at
\* or below MaxOther
MaxOther == 1

\* worker threads of the threadpool that runs the sync dependency
NumThreads == 2

\* calls of one burst run one after another up to the OverlapFrom-th and
\* overlap from then on
OverlapFrom == 97

\* the clock of the authentication specification advances in steps of AuthTick
AuthTick == 1800

MaxAuthTime == 3600

\* rows the authentication specification lets the table grow to
MaxAuthRows == 2

\* ------------------------------------------------------------ settings

jwt_secret == "secret"

\* the registry in the iteration order of the dict literal; chatbot-agent is
\* unset in the environment, employee-dashboard falls back to ""
RegistryOrder ==
    <<"analytics-service", "hr-integration", "chatbot-agent", "employee-dashboard">>

SERVICE_API_KEYS ==
    [s \in {RegistryOrder[i] : i \in 1..Len(RegistryOrder)} |->
        CASE s = "analytics-service" -> "key-analytics"
          [] s = "hr-integration" -> "key-hr"
          [] s = "chatbot-agent" -> None
          [] OTHER -> ""]

\* values a client can send as X-Service-API-Key (None: header absent)
ApiKeys == {None, "", "key-analytics", "key-hr", "key-wrong", "key-non-ascii"}

\* the keys sent while a window is filled: two that authenticate, one that does not
RateApiKeys == {"key-analytics", "key-hr", "key-wrong"}

Hosts == {"10.0.0.1"}

\* ------------------------------------------------------------ token codec

\* jwt.encode: the payload with an HMAC over it under the secret
jwt_encode(payload, secret) ==
    [fmt |-> "jwt", payload |-> payload, sig |-> [key |-> secret, over |-> payload]]

\* mutant: the expiry is not checked
jwt_decode_no_expiry(token, secret, t) ==
    IF token.fmt # "jwt" THEN [err |-> "DecodeError"]
    ELSE IF token.sig # [key |-> secret, over |-> token.payload]
        THEN [err |-> "InvalidSignatureError"]
    ELSE [err |-> None, payload |-> token.payload]

\* jwt.decode(verify_signature=True): the error raised, or the payload
jwt_decode(token, secret, t) ==
    IF token.fmt # "jwt" THEN [err |-> "DecodeError"]
    ELSE IF token.sig # [key |-> secret, over |-> token.payload]
        THEN [err |-> "InvalidSignatureError"]
    ELSE IF "exp" \in DOMAIN token.payload /\ token.payload.exp <= t
        THEN [err |-> "ExpiredSignatureError"]
    ELSE [err |-> None, payload |-> token.payload]

\* ------------------------------------------------------------ rate limiter

Truthy(s) == s # None /\ s # ""

\* secrets.compare_digest on two str: TypeError unless both are ASCII
IsAscii(s) == s # "key-non-ascii"

RateKey(service_name, client_ip) == <<service_name, client_ip>>

\* mutant: the limit compared after the increment is one too high
check_rate_limit_off_by_one(store, service_name, client_ip, t) ==
    LET key == RateKey(service_name, client_ip) IN
    IF key \notin DOMAIN store
    THEN [ok |-> TRUE,
          store |-> store @@ (key :> [count |-> 1, reset_at |-> t + RATE_LIMIT_WINDOW])]
    ELSE IF t >= store[key].reset_at
    THEN [ok |-> TRUE,
          store |-> [store EXCEPT ![key] =
                        [count |-> 1, reset_at |-> t + RATE_LIMIT_WINDOW]]]
    ELSE LET c == store[key].count + 1 IN
         [ok |-> c <= RATE_LIMIT_MAX + 1,
          store |-> [store EXCEPT ![key].count = c]]

\* mutant: the window is reset only strictly after its reset time
check_rate_limit_late_reset(store, service_name, client_ip, t) ==
    LET key == RateKey(service_name, client_ip) IN
    IF key \notin DOMAIN store
    THEN [ok |-> TRUE,
          store |-> store @@ (key :> [count |-> 1, reset_at |-> t + RATE_LIMIT_WINDOW])]
    ELSE IF t > store[key].reset_at
    THEN [ok |-> TRUE,
          store |-> [store EXCEPT ![key] =
                        [count |-> 1, reset_at |-> t + RATE_LIMIT_WINDOW]]]
    ELSE LET c == store[key].count + 1 IN
         [ok |-> c <= RATE_LIMIT_MAX,
          store |-> [store EXCEPT ![key].count = c]]

\* mutant: a key is refused while any key of the table is over the limit
check_rate_limit_any_key_exhausted(store, service_name, client_ip, t) ==
    LET key == RateKey(service_name, client_ip)
        free == \A k \in DOMAIN store \ {key} :
                    store[k].count <= RATE_LIMIT_MAX \/ t >= store[k].reset_at
    IN
    IF key \notin DOMAIN store
    THEN [ok |-> free,
          store |-> store @@ (key :> [count |-> 1, reset_at |-> t + RATE_LIMIT_WINDOW])]
    ELSE IF t >= store[key].reset_at
    THEN [ok |-> free,
          store |-> [store EXCEPT ![key] =
                        [count |-> 1, reset_at |-> t + RATE_LIMIT_WINDOW]]]
    ELSE LET c == store[key].count + 1 IN
         [ok |-> c <= RATE_LIMIT_MAX /\ free,
          store |-> [store EXCEPT ![key].count = c]]

\* mutant: a request over the limit is refused without being counted
check_rate_limit_refusal_uncounted(store, service_name, client_ip, t) ==
    LET key == RateKey(service_name, client_ip) IN
    IF key \notin DOMAIN store
    THEN [ok |-> TRUE,
          store |-> store @@ (key :> [count |-> 1, reset_at |-> t + RATE_LIMIT_WINDOW])]
    ELSE IF t >= store[key].reset_at
    THEN [ok |-> TRUE,
          store |-> [store EXCEPT ![key] =
                        [count |-> 1, reset_at |-> t + RATE_LIMIT_WINDOW]]]
    ELSE IF store[key].count >= RATE_LIMIT_MAX
    THEN [ok |-> FALSE, store |-> store]
    ELSE [ok |-> TRUE, store |-> [store EXCEPT ![key].count = @ + 1]]

\* service_auth._check_rate_limit
check_rate_limit(store, service_name, client_ip, t) ==
    LET key == RateKey(service_name, client_ip) IN
    IF key \notin DOMAIN store
    THEN [ok |-> TRUE,
          store |-> store @@ (key :> [count |-> 1, reset_at |-> t + RATE_LIMIT_WINDOW])]
    ELSE IF t >= store[key].reset_at
    THEN [ok |-> TRUE,
          store |-> [store EXCEPT ![key] =
                        [count |-> 1, reset_at |-> t + RATE_LIMIT_WINDOW]]]
    ELSE LET c == store[key].count + 1 IN
         [ok |-> c <= RATE_LIMIT_MAX,
          store |-> [store EXCEPT ![key].count = c]]

\* the for-loop over SERVICE_API_KEYS.items() from position i on
RECURSIVE ScanKeys(_, _)
ScanKeys(api_key, i) ==
    IF i > Len(RegistryOrder) THEN [kind |-> "nomatch"]
    ELSE LET valid_key == SERVICE_API_KEYS[RegistryOrder[i]] IN
         IF ~Truthy(valid_key) THEN ScanKeys(api_key, i + 1)
         ELSE IF ~(IsAscii(api_key) /\ IsAscii(valid_key)) THEN [kind |-> "TypeError"]
         ELSE IF api_key = valid_key
             THEN [kind |-> "match", service |-> RegistryOrder[i]]
         ELSE ScanKeys(api_key, i + 1)

\* mutant: only an absent header counts as missing, an empty one is scanned
get_service_from_api_key_empty_scanned(store, api_key, client_ip, t) ==
    IF api_key = None
    THEN [kind |-> "http", status |-> 401, detail |-> "Missing service API key",
          headers |-> [h \in {"WWW-Authenticate"} |-> "APIKey"], store |-> store]
    ELSE LET m == ScanKeys(api_key, 1) IN
         IF m.kind = "match"
         THEN LET r == check_rate_limit(store, m.service, client_ip, t) IN
              [kind |-> "ok", service |-> m.service, store |-> r.store]
         ELSE [kind |-> "http", status |-> 403, detail |-> "Invalid API key",
               headers |-> <<>>, store |-> store]

\* mutant: neither the presented nor the configured key is tested for being
\* set; an unset one counts as the empty string
get_service_from_api_key_unset_is_empty(store, api_key, client_ip, t) ==
    LET text(k) == IF k = None THEN "" ELSE k
        hits == {i \in 1..Len(RegistryOrder) :
                    text(SERVICE_API_KEYS[RegistryOrder[i]]) = text(api_key)}
    IN
    IF hits = {}
    THEN [kind |-> "http", status |-> 403, detail |-> "Invalid API key",
          headers |-> <<>>, store |-> store]
    ELSE LET service_name == RegistryOrder[CHOOSE i \in hits : \A j \in hits : i <= j]
             r == check_rate_limit(store, service_name, client_ip, t)
         IN [kind |-> "ok", service |-> service_name, store |-> r.store]

\* service_auth.get_service_from_api_key
get_service_from_api_key(store, api_key, client_ip, t) ==
    IF ~Truthy(api_key)
    THEN [kind |-> "http", status |-> 401, detail |-> "Missing service API key",
          headers |-> [h \in {"WWW-Authenticate"} |-> "APIKey"], store |-> store]
    ELSE LET m == ScanKeys(api_key, 1) IN
         IF m.kind = "TypeError"
         THEN [kind |-> "fault", status |-> 500, detail |-> "TypeError",
               headers |-> <<>>, store |-> store]
         ELSE IF m.kind = "match"
         THEN LET r == check_rate_limit(store, m.service, client_ip, t) IN
              IF r.ok
              THEN [kind |-> "ok", service |-> m.service, store |-> r.store]
              ELSE [kind |-> "http", status |-> 429, detail |-> "Rate limit exceeded",
                    headers |-> [h \in {"Retry-After"} |-> "60"], store |-> r.store]
         ELSE [kind |-> "http", status |-> 403, detail |-> "Invalid API key",
               headers |-> <<>>, store |-> store]

\* the payload get_service_token signs; t_exp and t_iat are its two readings
\* of int(time.time()), lines 175 and 182
ServicePayload(service_name, t_exp, t_iat) ==
    [sub |-> service_name, exp |-> t_exp + SERVICE_TOKEN_LIFETIME, service |-> TRUE,
     iat |-> t_iat, iss |-> "employee-onboarding-api"]

get_service_token(service_name, t_exp, t_iat) ==
    [access_token |-> jwt_encode(ServicePayload(service_name, t_exp, t_iat), jwt_secret),
     token_type |-> "bearer", expires_in |-> 3600, service |-> service_name]

\* seconds by which the two readings are later than the start of the request:
\* the clock may pass a full second between them
ClockReads == {<<0, 0>>, <<0, 1>>, <<1, 1>>}

\* ------------------------------------------------------------ user tokens

JWT_EXPIRES_MINUTES == 30

\* auth.create_access_token(data={"sub": username}): the user BearerToken
UserPayload(username, t) ==
    [sub |-> username, exp |-> t + 60 * JWT_EXPIRES_MINUTES, iat |-> t,
     iss |-> "employee-onboarding-api"]

create_access_token(username, t) == jwt_encode(UserPayload(username, t), jwt_secret)

\* dict.get(key, default)
Get(d, k, default) == IF k \in DOMAIN d THEN d[k] ELSE default

\* ------------------------------------------------------------ header strings
\* A header value is a sequence of atoms: the literal "Bearer ", other literal
\* text, and token strings (which hold no blank, so no "Bearer ").

Lit(text) == [a |-> "lit", v |-> text]

Tok(token) == [a |-> "tok", v |-> token]

Bearer == Lit("Bearer ")

Absent == [present |-> FALSE, s |-> <<>>]

Hdr(s) == [present |-> TRUE, s |-> s]

\* str.startswith("Bearer ")
StartsWithBearer(s) == Len(s) >= 1 /\ s[1] = Bearer

\* str.replace("Bearer ", ""): every occurrence is removed
RECURSIVE ReplaceBearer(_)
ReplaceBearer(s) ==
    IF s = <<>> THEN <<>>
    ELSE IF Head(s) = Bearer THEN ReplaceBearer(Tail(s))
    ELSE <<Head(s)>> \o ReplaceBearer(Tail(s))

Garbage == [fmt |-> "garbage"]

\* the token a string is read as by jwt.decode: a string that is not exactly
\* one token does not parse
ParseToken(s) == IF Len(s) = 1 /\ s[1].a = "tok" THEN s[1].v ELSE Garbage

\* ------------------------------------------------------------ employee store

Usernames(store) == {store[i].username : i \in 1..Len(store)}

\* supabase.table("employees").select(...).eq("username", u): the matching rows
RowsByUsername(store, u) == SelectSeq(store, LAMBDA row : row.username = u)

RowsById(store, id) == SelectSeq(store, LAMBDA row : row.id = id)

\* auth.get_current_user(token): decode, then look the subject up (spec 4.3)
get_current_user(token, store, t, lookup_fails) ==
    LET d == jwt_decode(token, jwt_secret, t)
        unauthorized ==
            [kind |-> "http", status |-> 401, detail |-> "Could not validate credentials",
             headers |-> [h \in {"WWW-Authenticate"} |-> "Bearer"]]
    IN
    IF d.err # None THEN unauthorized
    ELSE IF "sub" \notin DOMAIN d.payload THEN unauthorized
    ELSE IF lookup_fails THEN [kind |-> "exception", detail |-> "store error"]
    ELSE LET rows == RowsByUsername(store, d.payload.sub) IN
         IF rows = <<>> THEN unauthorized ELSE [kind |-> "user", user |-> rows[1]]

\* mutant: only HTTPException is caught, any other exception escapes
get_optional_current_user_http_only(authorization, store, t, lookup_fails) ==
    IF ~authorization.present \/ authorization.s = <<>> THEN [kind |-> "none"]
    ELSE IF StartsWithBearer(authorization.s)
    THEN LET r == get_current_user(ParseToken(ReplaceBearer(authorization.s)),
                                   store, t, lookup_fails) IN
         CASE r.kind = "user" -> r
           [] r.kind = "http" -> [kind |-> "none"]
           [] r.kind = "exception" -> [kind |-> "raise"]
    ELSE [kind |-> "none"]

\* employees.get_optional_current_user
get_optional_current_user(authorization, store, t, lookup_fails) ==
    IF ~authorization.present \/ authorization.s = <<>> THEN [kind |-> "none"]
    ELSE IF StartsWithBearer(authorization.s)
    THEN LET r == get_current_user(ParseToken(ReplaceBearer(authorization.s)),
                                   store, t, lookup_fails) IN
         CASE r.kind = "user" -> r
           [] r.kind = "http" -> [kind |-> "none"]         \* except HTTPException
           [] r.kind = "exception" -> [kind |-> "none"]    \* except Exception
    ELSE [kind |-> "none"]

\* employees.get_required_current_user, called with a header that is present
get_required_current_user(authorization, store, t, lookup_fails) ==
    IF authorization.s = <<>> \/ ~StartsWithBearer(authorization.s)
    THEN [kind |-> "http", status |-> 401, detail |-> "Not authenticated",
          headers |-> [h \in {"WWW-Authenticate"} |-> "Bearer"]]
    ELSE LET r == get_current_user(ParseToken(ReplaceBearer(authorization.s)),
                                   store, t, lookup_fails) IN
         CASE r.kind = "user" -> r
           [] r.kind = "http" -> r                          \* re-raised
           [] r.kind = "exception" ->
                [kind |-> "http", status |-> 500, detail |-> "Authentication error",
                 headers |-> <<>>]

\* Depends(get_required_current_user) with authorization: str = Header(...):
\* a request without the header fails validation before the function is called
RequiredUser(authorization, store, t, lookup_fails) ==
    IF ~authorization.present
    THEN [kind |-> "http", status |-> 422, detail |-> "Field required", headers |-> <<>>]
    ELSE get_required_current_user(authorization, store, t, lookup_fails)

\* ------------------------------------------------------------ employee routes

\* auth.get_password_hash: a salted one-way digest
get_password_hash(password, salt) == [alg |-> "bcrypt", salt |-> salt, pw |-> password]

\* auth.verify_password
verify_password(password, digest) ==
    /\ DOMAIN digest = {"alg", "salt", "pw"}
    /\ digest.pw = password

ProfileFields == {"first_name", "last_name", "job_title", "department", "email", "phone"}

\* models.EmployeeResponse: EmployeeBase plus id and created_at
EmployeeResponseFields == ProfileFields \cup {"role", "id", "created_at"}

\* models.EmployeeConfidential
EmployeeConfidentialFields == EmployeeResponseFields \cup {"salary"}

\* response_model filtering of a returned row
Project(row, fields) == [f \in fields \cap DOMAIN row |-> row[f]]

PrivilegedRoles == {"hr", "manager", "admin"}

\* what the store does with a write: it succeeds, raises, answers with an
\* error, or answers without data
StoreFaults == {"none", "check_raises", "raises", "error", "nodata"}

StoreMessage == "<store error message>"

HttpError(status, detail) ==
    [kind |-> "http", status |-> status, detail |-> detail, headers |-> <<>>]

\* an exception no handler catches: the server's plain 500
Unhandled == HttpError(500, <<"Internal Server Error">>)

\* str(HTTPException)
StrHttp(e) == <<ToString(e.status), ": ">> \o e.detail

\* the row create_employee inserts (lines 86-93); the table's salary column
\* starts out NULL
NewRow(store, employee, assigned_role, t, salt) ==
    [f \in (DOMAIN employee \ {"password"})
           \cup {"password_hash", "id", "role", "created_at", "salary"} |->
        CASE f = "password_hash" -> get_password_hash(employee.password, salt)
          [] f = "id" -> Len(store) + 1
          [] f = "role" -> assigned_role
          [] f = "created_at" -> t
          [] f = "salary" -> None
          [] OTHER -> employee[f]]

\* mutant: a manager may assign privileged roles too
create_employee_manager_assigns(store, current_user, employee, t, fault, salt) ==
    IF RowsByUsername(store, employee.username) # <<>>
    THEN [resp |-> HttpError(400, <<"Username already exists">>), store |-> store]
    ELSE IF employee.role \in {"hr", "manager", "admin"}
            /\ ~(current_user.kind = "user"
                 /\ current_user.user.role \in {"hr", "manager", "admin"})
    THEN [resp |-> HttpError(403, <<"Not authorized to assign privileged roles.">>),
          store |-> store]
    ELSE LET assigned_role ==
                 IF employee.role \in {"hr", "manager", "admin"}
                 THEN employee.role ELSE "employee"
             row == NewRow(store, employee, assigned_role, t, salt)
         IN [resp |-> [kind |-> "ok", status |-> 201, headers |-> <<>>,
                       body |-> Project(row, EmployeeResponseFields)],
             store |-> Append(store, row)]

\* mutant: the role check runs before the username check
create_employee_role_check_first(store, current_user, employee, t, fault, salt) ==
    IF employee.role \in {"hr", "manager", "admin"}
       /\ ~(current_user.kind = "user" /\ current_user.user.role \in {"hr", "admin"})
    THEN [resp |-> HttpError(403, <<"Not authorized to assign privileged roles.">>),
          store |-> store]
    ELSE IF RowsByUsername(store, employee.username) # <<>>
    THEN [resp |-> HttpError(400, <<"Username already exists">>), store |-> store]
    ELSE LET assigned_role ==
                 IF employee.role \in {"hr", "manager", "admin"}
                 THEN employee.role ELSE "employee"
             row == NewRow(store, employee, assigned_role, t, salt)
         IN [resp |-> [kind |-> "ok", status |-> 201, headers |-> <<>>,
                       body |-> Project(row, EmployeeResponseFields)],
             store |-> Append(store, row)]

\* employees.create_employee, after its dependency returned current_user
create_employee(store, current_user, employee, t, fault, salt) ==
    IF fault = "check_raises" THEN [resp |-> Unhandled, store |-> store]
    ELSE IF RowsByUsername(store, employee.username) # <<>>
    THEN [resp |-> HttpError(400, <<"Username already exists">>), store |-> store]
    ELSE IF employee.role \in {"hr", "manager", "admin"}
            /\ ~(current_user.kind = "user" /\ current_user.user.role \in {"hr", "admin"})
    THEN [resp |-> HttpError(403, <<"Not authorized to assign privileged roles.">>),
          store |-> store]
    ELSE LET assigned_role ==
                 IF employee.role \in {"hr", "manager", "admin"}
                 THEN employee.role ELSE "employee"
             row == NewRow(store, employee, assigned_role, t, salt)
             wrap(msg) == HttpError(500, <<"Error creating employee: ">> \o msg)
         IN
         CASE fault = "raises" ->
                [resp |-> wrap(<<StoreMessage>>), store |-> store]
           [] fault = "error" ->
                [resp |-> wrap(StrHttp(HttpError(500,
                              <<"Failed to create employee: ", StoreMessage>>))),
                 store |-> store]
           [] fault = "nodata" ->
                [resp |-> wrap(StrHttp(HttpError(500,
                              <<"Failed to create employee, no data returned.">>))),
                 store |-> Append(store, row)]
           [] OTHER ->
                [resp |-> [kind |-> "ok", status |-> 201, headers |-> <<>>,
                           body |-> Project(row, EmployeeResponseFields)],
                 store |-> Append(store, row)]

\* create_employee up to the insert (lines 64-84): the username query and the
\* role decision, made against the store as it is when the query runs
create_employee_check(store, current_user, employee) ==
    IF RowsByUsername(store, employee.username) # <<>>
    THEN [kind |-> "reject", resp |-> HttpError(400, <<"Username already exists">>)]
    ELSE IF employee.role \in {"hr", "manager", "admin"}
            /\ ~(current_user.kind = "user" /\ current_user.user.role \in {"hr", "admin"})
    THEN [kind |-> "reject",
          resp |-> HttpError(403, <<"Not authorized to assign privileged roles.">>)]
    ELSE [kind |-> "proceed",
          assigned_role |-> IF employee.role \in {"hr", "manager", "admin"}
                            THEN employee.role ELSE "employee"]

\* create_employee from the insert on (lines 86-111), against the store as it
\* is when the insert runs
create_employee_insert(store, employee, assigned_role, t, salt) ==
    LET row == NewRow(store, employee, assigned_role, t, salt) IN
    [resp |-> [kind |-> "ok", status |-> 201, headers |-> <<>>,
               body |-> Project(row, EmployeeResponseFields)],
     store |-> Append(store, row)]

\* employees.get_my_profile
get_my_profile(current_user) ==
    [kind |-> "ok", status |-> 200, headers |-> <<>>,
     body |-> Project(current_user, EmployeeResponseFields)]

\* mutant: the owner of a row may set its salary
update_salary_owner_allowed(store, current_user, employee_id, salary_payload, fault) ==
    IF current_user.role \notin {"hr", "manager", "admin"}
       /\ current_user.id # employee_id
    THEN [resp |-> HttpError(403, <<"Not enough permissions to update salary">>),
          store |-> store]
    ELSE [resp |-> [kind |-> "ok", status |-> 200, headers |-> <<>>,
                    body |-> [id |-> employee_id, salary |-> salary_payload]],
          store |-> [i \in 1..Len(store) |->
                        IF store[i].id = employee_id
                        THEN [store[i] EXCEPT !.salary = salary_payload]
                        ELSE store[i]]]

\* employees.update_salary, after its dependency returned current_user
update_salary(store, current_user, employee_id, salary_payload, fault) ==
    IF current_user.role \notin {"hr", "manager", "admin"}
    THEN [resp |-> HttpError(403, <<"Not enough permissions to update salary">>),
          store |-> store]
    ELSE LET wrap(msg) == HttpError(500, <<"Error updating salary: ">> \o msg)
             updated == [i \in 1..Len(store) |->
                            IF store[i].id = employee_id
                            THEN [store[i] EXCEPT !.salary = salary_payload]
                            ELSE store[i]]
             rows == RowsById(updated, employee_id)
         IN
         CASE fault \in {"check_raises", "raises"} ->
                [resp |-> wrap(<<StoreMessage>>), store |-> store]
           [] fault = "error" ->
                [resp |-> wrap(StrHttp(HttpError(500,
                              <<"Failed to update salary: ", StoreMessage>>))),
                 store |-> store]
           [] fault = "nodata" \/ rows = <<>> ->
                [resp |-> wrap(StrHttp(HttpError(404,
                              <<"Employee not found or salary update failed">>))),
                 store |-> updated]
           [] OTHER ->
                [resp |-> [kind |-> "ok", status |-> 200, headers |-> <<>>,
                           body |-> Project(rows[1], EmployeeConfidentialFields)],
                 store |-> updated]

\* mutant: the update model lets every field of the body through
EmployeeUpdate_any_field(body) == body

\* models.EmployeeUpdate: the six optional profile fields; other keys of the
\* request body are ignored, and model_dump(exclude_unset=True) returns the
\* fields the body set
EmployeeUpdate(body) == [f \in DOMAIN body \cap ProfileFields |-> body[f]]

\* dict.update of a row by the fields a request sets
ApplyUpdate(row, payload) ==
    [f \in DOMAIN row |-> IF f \in DOMAIN payload THEN payload[f] ELSE row[f]]

\* mutant: the update is sent without its id filter
UpdateRows_no_filter(store, id, payload) ==
    [i \in 1..Len(store) |-> ApplyUpdate(store[i], payload)]

\* supabase.table("employees").update(payload).eq("id", id)
UpdateRows(store, id, payload) ==
    [i \in 1..Len(store) |->
        IF store[i].id = id THEN ApplyUpdate(store[i], payload) ELSE store[i]]

\* the update and the select that follows it, inside one try (lines 172-194,
\* 214-236): check_raises is the update raising, raises the select raising
UpdateThenSelect(store, id, payload, fault, what, missing) ==
    LET wrap(msg) == HttpError(500, <<"Error updating ", what, ": ">> \o msg)
        updated == UpdateRows(store, id, payload)
        rows == RowsById(updated, id)
    IN
    CASE fault = "check_raises" ->
            [resp |-> wrap(<<StoreMessage>>), store |-> store]
      [] fault = "error" ->
            [resp |-> wrap(StrHttp(HttpError(500,
                          <<"Failed to update ", what, ": ", StoreMessage>>))),
             store |-> store]
      [] fault = "raises" ->
            [resp |-> wrap(<<StoreMessage>>), store |-> updated]
      [] fault = "nodata" \/ rows = <<>> ->
            [resp |-> wrap(StrHttp(HttpError(404, missing))), store |-> updated]
      [] OTHER ->
            [resp |-> [kind |-> "ok", status |-> 200, headers |-> <<>>,
                       body |-> Project(rows[1], EmployeeResponseFields)],
             store |-> updated]

\* employees.update_my_profile, after its dependency returned current_user
update_my_profile(store, current_user, update_data, fault) ==
    IF DOMAIN update_data = {}
    THEN [resp |-> HttpError(400, <<"No update data provided">>), store |-> store]
    ELSE UpdateThenSelect(store, current_user.id, update_data, fault, "profile",
                          <<"Employee not found after update">>)

\* mutant: the role check is gone
admin_update_employee_profile_any_role(store, current_user, employee_id_to_update, update_payload, fault) ==
    IF DOMAIN update_payload = {}
    THEN [resp |-> HttpError(400, <<"No update data provided">>), store |-> store]
    ELSE UpdateThenSelect(store, employee_id_to_update, update_payload, fault,
                          "employee", <<"Employee not found">>)

\* employees.admin_update_employee_profile, after its dependency returned
\* current_user
admin_update_employee_profile(store, current_user, employee_id_to_update, update_payload, fault) ==
    IF current_user.role \notin {"hr", "manager", "admin"}
    THEN [resp |-> HttpError(403, <<"Not authorized for this action">>), store |-> store]
    ELSE IF DOMAIN update_payload = {}
    THEN [resp |-> HttpError(400, <<"No update data provided">>), store |-> store]
    ELSE UpdateThenSelect(store, employee_id_to_update, update_payload, fault,
                          "employee",
                          <<"Employee with id ", ToString(employee_id_to_update),
                            " not found or update effectively removed it (which shouldn't happen here)">>)

\* mutant: the lookups select every column
EMPLOYEE_PUBLIC_FIELDS_all_columns ==
    {"id", "username", "first_name", "last_name", "job_title", "department", "email",
     "phone", "role", "created_at", "salary", "password_hash"}

\* employees.EMPLOYEE_PUBLIC_FIELDS
EMPLOYEE_PUBLIC_FIELDS ==
    {"id", "username", "first_name", "last_name", "job_title", "department", "email",
     "phone", "role", "created_at"}

\* .select(fields) on the rows a query matched
Select(rows, fields) == [i \in 1..Len(rows) |-> Project(rows[i], fields)]

\* .limit(n)
Limit(rows, n) == SubSeq(rows, 1, IF n < Len(rows) THEN n ELSE Len(rows))

\* an employee_id that is absent, empty or (for the MCP route) not a string
NoEmployeeId == 0

\* str.lower over the search terms of the model
Lower(text) == IF text = "ROOT" THEN "root" ELSE text

\* column ILIKE '%needle%' over the strings of the model: the usernames are
\* "root" and "user<n>", every other text column holds a one-letter value
ILike(value, needle) ==
    \/ Lower(value) = Lower(needle)
    \/ Lower(needle) = "user"
          /\ \E n \in 1..9 : value = "user" \o ToString(n)

\* str.split over the search terms of the model
Split(name) == IF name = "a a" THEN <<"a", "a">> ELSE <<name>>

\* the rows GET /employees/api/employee asks the store for (lines 308-323)
LookupRows(store, employee_id, name) ==
    IF employee_id # NoEmployeeId THEN RowsById(store, employee_id)
    ELSE LET parts == Split(name) IN
         IF Len(parts) > 1
         THEN SelectSeq(store, LAMBDA row : /\ ILike(row.first_name, parts[1])
                                           /\ ILike(row.last_name, parts[2]))
         ELSE SelectSeq(store, LAMBDA row : \/ ILike(row.first_name, name)
                                           \/ ILike(row.last_name, name)
                                           \/ ILike(row.username, name))

\* employees.get_employee_by_id_or_name; the response model keeps the fields of
\* EmployeeResponse of the row or of every row of the list
get_employee_by_id_or_name(store, employee_id, name, fault) ==
    LET wrap(msg) == HttpError(500, <<"Error searching employees: ">> \o msg) IN
    IF fault = "raises" THEN [resp |-> wrap(<<StoreMessage>>), shape |-> "none"]
    ELSE IF employee_id = NoEmployeeId /\ ~Truthy(name)
    THEN [resp |-> [kind |-> "ok", status |-> 200, headers |-> <<>>,
                    body |-> Select(Select(Limit(store, 100), EMPLOYEE_PUBLIC_FIELDS),
                                    EmployeeResponseFields)],
          shape |-> "many"]
    ELSE IF fault = "error"
    THEN [resp |-> HttpError(500, <<"Error fetching employee(s): ", StoreMessage>>),
          shape |-> "none"]
    ELSE LET data == Select(LookupRows(store, employee_id, name), EMPLOYEE_PUBLIC_FIELDS) IN
         IF data = <<>>
         THEN [resp |-> HttpError(404, <<"Employee not found">>), shape |-> "none"]
         ELSE IF employee_id # NoEmployeeId
         THEN [resp |-> [kind |-> "ok", status |-> 200, headers |-> <<>>,
                         body |-> Project(data[1], EmployeeResponseFields)],
               shape |-> "one"]
         ELSE [resp |-> [kind |-> "ok", status |-> 200, headers |-> <<>>,
                         body |-> Select(data, EmployeeResponseFields)],
               shape |-> "many"]

\* the context of an MCP response (lines 369-379)
McpContext(request, service_token, t) ==
    [service |-> "employee-service", timestamp |-> t,
     request_id |-> IF request.context = <<>> THEN None
                    ELSE request.context[1].request_id,
     caller |-> IF Truthy(service_token) THEN "authenticated-service"
                ELSE IF request.context = <<>> THEN None
                ELSE request.context[1].caller]

McpError(code, message, context) ==
    [resp |-> [kind |-> "ok", status |-> 200, headers |-> <<>>,
               body |-> [status |-> "error", data |-> None,
                         error |-> [code |-> code, message |-> message],
                         context |-> context]],
     shape |-> "none"]

McpSuccess(data, shape, context) ==
    [resp |-> [kind |-> "ok", status |-> 200, headers |-> <<>>,
               body |-> [status |-> "success", data |-> data, error |-> None,
                         context |-> context]],
     shape |-> shape]

\* employees.employee_mcp; MCPResponse.data is an open dict, so the rows go
\* out as the store returned them
employee_mcp(store, request, service_token, fault, t) ==
    LET context == McpContext(request, service_token, t)
        action == request.action
        params == request.parameters
        needs_store ==
            \/ action = "get_employee" /\ Get(params, "employee_id", NoEmployeeId) # NoEmployeeId
            \/ action = "search_employees" /\ Truthy(Get(params, "name", None))
            \/ action = "list_employees"
    IN
    IF needs_store /\ fault = "raises"
    THEN McpError("INTERNAL_SERVER_ERROR",
                  <<"An unexpected error occurred: ", StoreMessage>>, context)
    ELSE IF needs_store /\ fault = "error"
    THEN McpError("DB_ERROR", <<StoreMessage>>, context)
    ELSE
    CASE action = "get_employee" ->
            LET employee_id == Get(params, "employee_id", NoEmployeeId) IN
            IF employee_id = NoEmployeeId
            THEN McpError("MISSING_OR_INVALID_PARAMETER",
                          <<"Valid 'employee_id' (string) parameter is required">>, context)
            ELSE LET data == Select(RowsById(store, employee_id), EMPLOYEE_PUBLIC_FIELDS) IN
                 IF data = <<>>
                 THEN McpError("NOT_FOUND",
                               <<"Employee with ID '", ToString(employee_id), "' not found">>,
                               context)
                 ELSE McpSuccess(data[1], "one", context)
      [] action = "search_employees" ->
            LET name == Get(params, "name", None)
                limit == Get(params, "limit", 20)
            IN
            IF ~Truthy(name)
            THEN McpError("MISSING_OR_INVALID_PARAMETER",
                          <<"Valid 'name' (string) parameter is required">>, context)
            ELSE McpSuccess(
                    Limit(Select(SelectSeq(store,
                                  LAMBDA row : \/ ILike(row.first_name, name)
                                               \/ ILike(row.last_name, name)
                                               \/ ILike(row.username, name)
                                               \/ ILike(row.email, name)),
                                 EMPLOYEE_PUBLIC_FIELDS), limit),
                    "many", context)
      [] action = "list_employees" ->
            McpSuccess(Limit(Select(store, EMPLOYEE_PUBLIC_FIELDS),
                             Get(params, "limit", 100)), "many", context)
      [] OTHER ->
            McpError("INVALID_ACTION",
                     <<"Action '", action, "' is not supported. Supported actions: get_employee, search_employees, list_employees.">>,
                     context)

\* OAuth2PasswordRequestForm: a form field that is absent (None) or empty counts
\* as missing
FormMissing(v) == v = None \/ v = ""

\* mutant: a wrong password is told apart from an unknown username
login_for_access_token_names_cause(store, username, password, t, lookup_fails) ==
    IF lookup_fails THEN [kind |-> "http", status |-> 500,
                          detail |-> "Internal Server Error", headers |-> <<>>]
    ELSE LET rows == RowsByUsername(store, username) IN
         IF rows = <<>>
         THEN [kind |-> "http", status |-> 401, detail |-> "Incorrect username",
               headers |-> [h \in {"WWW-Authenticate"} |-> "Bearer"]]
         ELSE IF ~verify_password(password, rows[1].password_hash)
         THEN [kind |-> "http", status |-> 401, detail |-> "Incorrect password",
               headers |-> [h \in {"WWW-Authenticate"} |-> "Bearer"]]
         ELSE [kind |-> "ok", status |-> 200, headers |-> <<>>,
               body |-> [access_token |-> create_access_token(rows[1].username, t),
                         token_type |-> "bearer"]]

\* auth.login_for_access_token, called with the fields of a complete form
login_for_access_token(store, username, password, t, lookup_fails) ==
    IF lookup_fails THEN [kind |-> "http", status |-> 500,
                          detail |-> "Internal Server Error", headers |-> <<>>]
    ELSE LET rows == RowsByUsername(store, username) IN
         IF rows = <<>> \/ ~verify_password(password, rows[1].password_hash)
         THEN [kind |-> "http", status |-> 401,
               detail |-> "Incorrect username or password",
               headers |-> [h \in {"WWW-Authenticate"} |-> "Bearer"]]
         ELSE [kind |-> "ok", status |-> 200, headers |-> <<>>,
               body |-> [access_token |-> create_access_token(rows[1].username, t),
                         token_type |-> "bearer"]]

\* POST /token as the framework serves it: the form is validated first
PostToken(store, username, password, t, lookup_fails) ==
    IF FormMissing(username) \/ FormMissing(password)
    THEN [kind |-> "http", status |-> 422, detail |-> "Field required", headers |-> <<>>]
    ELSE login_for_access_token(store, username, password, t, lookup_fails)

\* ------------------------------------------------------------ history

\* the window of a key as the requests themselves define it: it opens with the
\* first authenticated request and with the first one at or after its end
NextWindow(w, key, t) ==
    IF key \notin DOMAIN w THEN w @@ (key :> [start |-> t, seen |-> 1])
    ELSE IF t >= w[key].start + RATE_LIMIT_WINDOW
        THEN [w EXCEPT ![key] = [start |-> t, seen |-> 1]]
    ELSE [w EXCEPT ![key].seen = @ + 1]

\* the entry of a key as a sequence: empty when the key has none
Entry(store, key) == IF key \in DOMAIN store THEN <<store[key]>> ELSE <<>>

NoKey == <<>>

NoRequest == [op |-> "none"]

Count(store, key) == IF key \in DOMAIN store THEN store[key].count ELSE 0

\* the requests the model sends: see MaxCount and MaxOther
Sendable(store, key) ==
    /\ Count(store, key) < MaxCount
    /\ \/ Count(store, key) < MaxOther
       \/ \A k \in DOMAIN store \ {key} : store[k].count <= MaxOther

\* ------------------------------------------------------------ actions

\* POST /services/token
ServiceToken(api_key, host, reads) ==
    LET r == get_service_from_api_key(rate_limit_store, api_key, host, now)
        m == IF Truthy(api_key) THEN ScanKeys(api_key, 1) ELSE [kind |-> "nomatch"]
        key == IF m.kind = "match" THEN RateKey(m.service, host) ELSE NoKey
    IN
    /\ key # NoKey => Sendable(rate_limit_store, key)
    /\ r.kind # "ok" => reads = <<0, 0>>
    /\ rate_limit_store' = r.store
    /\ window' = IF key # NoKey THEN NextWindow(window, key, now) ELSE window
    /\ last' = [op |-> "service_token", api_key |-> api_key, host |-> host,
                at |-> now, key |-> key,
                before |-> Entry(rate_limit_store, key),
                status |-> IF r.kind = "ok" THEN 200 ELSE r.status,
                headers |-> IF r.kind = "ok" THEN <<>> ELSE r.headers,
                body |-> IF r.kind = "ok"
                         THEN get_service_token(r.service, now + reads[1], now + reads[2])
                         ELSE [detail |-> r.detail]]
    /\ UNCHANGED <<employees, now, concVars>>

RateTickStep ==
    /\ now + RateTick <= MaxRateTime
    /\ now' = now + RateTick
    /\ UNCHANGED <<employees, rate_limit_store, window, last, concVars>>

Threads == 1..NumThreads

Idle == [pc |-> "idle", now |-> 0, ref |-> 0, tmp |-> 0]

InitConcVars ==
    /\ heap = <<>>
    /\ store_ref = <<>>
    /\ th = [t \in Threads |-> Idle]
    /\ burst = [begun |-> 0, allowed |-> 0]

InitRate ==
    /\ now = 0
    /\ rate_limit_store = <<>>
    /\ window = <<>>
    /\ last = NoRequest
    /\ InitConcVars
    /\ employees = <<>>

NextRate ==
    \/ \E k \in RateApiKeys, h \in Hosts, reads \in ClockReads :
            ServiceToken(k, h, reads)
    \/ RateTickStep

SpecRate == InitRate /\ [][NextRate]_vars

\* ------------------------------------------------------------ concurrent calls
\* get_service_from_api_key is a sync dependency: each call runs on a thread of
\* the pool, and threads interleave between the reads and writes below.  All
\* calls of this specification present the same key from the same host.

ConcKey == RateKey("analytics-service", "10.0.0.1")

\* rate_limit_store as the dicts it refers to
Deref(refs, h) == [k \in DOMAIN refs |-> h[refs[k]]]

Returns(t, ok) ==
    /\ th' = [th EXCEPT ![t] = Idle]
    /\ burst' = [burst EXCEPT !.allowed = IF ok THEN @ + 1 ELSE @]

\* lines 95-96: key and now
Begin(t) ==
    /\ th[t].pc = "idle"
    /\ burst.begun < MaxCount
    /\ \/ burst.begun + 1 >= OverlapFrom
       \/ \A u \in Threads : th[u].pc = "idle"
    /\ th' = [th EXCEPT ![t] = [Idle EXCEPT !.pc = "L98", !.now = now]]
    /\ burst' = [burst EXCEPT !.begun = @ + 1]
    /\ UNCHANGED <<employees, now, rateVars, last, heap, store_ref>>

\* line 98: key not in rate_limit_store; line 102: store = rate_limit_store[key]
L98(t) ==
    /\ th[t].pc = "L98"
    /\ th' = IF ConcKey \notin DOMAIN store_ref
             THEN [th EXCEPT ![t].pc = "L99"]
             ELSE [th EXCEPT ![t].pc = "L105", ![t].ref = store_ref[ConcKey]]
    /\ UNCHANGED <<employees, now, rateVars, last, heap, store_ref, burst>>

\* lines 99-100: rate_limit_store[key] = {...}; return True
L99(t) ==
    /\ th[t].pc = "L99"
    /\ heap' = Append(heap, [count |-> 1, reset_at |-> th[t].now + RATE_LIMIT_WINDOW])
    /\ store_ref' = [k \in DOMAIN store_ref \cup {ConcKey} |->
                        IF k = ConcKey THEN Len(heap) + 1 ELSE store_ref[k]]
    /\ rate_limit_store' = Deref(store_ref', heap')
    /\ Returns(t, TRUE)
    /\ UNCHANGED <<employees, now, window, last>>

\* line 105: if now >= store["reset_at"]
L105(t) ==
    /\ th[t].pc = "L105"
    /\ th' = [th EXCEPT ![t].pc =
                  IF th[t].now >= heap[th[t].ref].reset_at THEN "L106" ELSE "L111"]
    /\ UNCHANGED <<employees, now, rateVars, last, heap, store_ref, burst>>

\* line 106: store["count"] = 1
L106(t) ==
    /\ th[t].pc = "L106"
    /\ heap' = [heap EXCEPT ![th[t].ref].count = 1]
    /\ rate_limit_store' = Deref(store_ref, heap')
    /\ th' = [th EXCEPT ![t].pc = "L107"]
    /\ UNCHANGED <<employees, now, window, last, store_ref, burst>>

\* lines 107-108: store["reset_at"] = now + RATE_LIMIT_WINDOW; return True
L107(t) ==
    /\ th[t].pc = "L107"
    /\ heap' = [heap EXCEPT ![th[t].ref].reset_at = th[t].now + RATE_LIMIT_WINDOW]
    /\ rate_limit_store' = Deref(store_ref, heap')
    /\ Returns(t, TRUE)
    /\ UNCHANGED <<employees, now, window, last, store_ref>>

\* line 111, store["count"] += 1: the read of store["count"]
L111(t) ==
    /\ th[t].pc = "L111"
    /\ th' = [th EXCEPT ![t].pc = "L111w", ![t].tmp = heap[th[t].ref].count]
    /\ UNCHANGED <<employees, now, rateVars, last, heap, store_ref, burst>>

\* line 111, store["count"] += 1: the write of the sum
L111w(t) ==
    /\ th[t].pc = "L111w"
    /\ heap' = [heap EXCEPT ![th[t].ref].count = th[t].tmp + 1]
    /\ rate_limit_store' = Deref(store_ref, heap')
    /\ th' = [th EXCEPT ![t].pc = "L112", ![t].tmp = 0]
    /\ UNCHANGED <<employees, now, window, last, store_ref, burst>>

\* line 112: return store["count"] <= RATE_LIMIT_MAX
L112(t) ==
    /\ th[t].pc = "L112"
    /\ Returns(t, heap[th[t].ref].count <= RATE_LIMIT_MAX)
    /\ UNCHANGED <<employees, now, rateVars, last, heap, store_ref>>

\* the clock moves on one window, between bursts
ConcTick ==
    /\ \A t \in Threads : th[t].pc = "idle"
    /\ now + RATE_LIMIT_WINDOW <= MaxRateTime
    /\ now' = now + RATE_LIMIT_WINDOW
    /\ burst' = [begun |-> 0, allowed |-> 0]
    /\ UNCHANGED <<employees, rateVars, last, heap, store_ref, th>>

InitConc == InitRate

NextConc ==
    \/ \E t \in Threads : Begin(t)
    \/ \E t \in Threads : L98(t)
    \/ \E t \in Threads : L99(t)
    \/ \E t \in Threads : L105(t)
    \/ \E t \in Threads : L106(t)
    \/ \E t \in Threads : L107(t)
    \/ \E t \in Threads : L111(t)
    \/ \E t \in Threads : L111w(t)
    \/ \E t \in Threads : L112(t)
    \/ ConcTick

SpecConc == InitConc /\ [][NextConc]_vars

\* ------------------------------------------------------------ authentication
\* Requests to POST /employees/ (optional authentication) and GET /employees/me
\* (required authentication) with every kind of Authorization header.

AuthTimes == {i * AuthTick : i \in 0..(MaxAuthTime \div AuthTick)}

ConfiguredServices ==
    {RegistryOrder[i] : i \in {j \in 1..Len(RegistryOrder) :
                                  Truthy(SERVICE_API_KEYS[RegistryOrder[j]])}}

\* tokens the server has issued by time t: to the users of the table since
\* they were created, and to the services that hold a key
UserTokens(store, t) ==
    UNION {{create_access_token(store[i].username, t0) :
                t0 \in {x \in AuthTimes : store[i].created_at <= x /\ x <= t}} :
            i \in 1..Len(store)}

ServiceTokens(t) ==
    {get_service_token(sv, t0, t0).access_token :
        sv \in ConfiguredServices, t0 \in {x \in AuthTimes : x <= t}}

\* tokens nobody was issued: signed with another secret, altered after signing
ForgedTokens(store, t) ==
    {jwt_encode(UserPayload(store[i].username, t), "attacker-secret") : i \in 1..Len(store)}
    \cup {[fmt |-> "jwt",
           payload |-> [UserPayload(store[i].username, 0) EXCEPT !.exp = MaxAuthTime + 1],
           sig |-> [key |-> jwt_secret, over |-> UserPayload(store[i].username, 0)]] :
            i \in 1..Len(store)}
    \cup {Garbage}

AuthHeaders(store, t) ==
    {Absent, Hdr(<<>>), Hdr(<<Bearer>>)}
    \cup {Hdr(<<Bearer, Tok(k)>>) :
            k \in UserTokens(store, t) \cup ServiceTokens(t) \cup ForgedTokens(store, t)}
    \cup UNION {{Hdr(<<Bearer, Bearer, Tok(k)>>), Hdr(<<Lit("Basic "), Tok(k)>>),
                 Hdr(<<Lit("bearer "), Tok(k)>>), Hdr(<<Tok(k)>>)} :
                    k \in UserTokens(store, t)}

Profile == [f \in ProfileFields |-> "a"]

EmployeeCreate(username, password, role) ==
    [f \in ProfileFields \cup {"username", "password", "role"} |->
        CASE f = "username" -> username
          [] f = "password" -> password
          [] f = "role" -> role
          [] OTHER -> Profile[f]]

AuthCreateRequests ==
    {EmployeeCreate(u, "pw1", "employee") : u \in {"alice", "analytics-service"}}

\* what a request's response is recorded as
Response(r) ==
    [status |-> r.status, headers |-> r.headers,
     body |-> IF r.kind = "ok" THEN r.body ELSE [detail |-> r.detail]]

\* POST /employees/
CreateEmployee(authorization, employee, lookup_fails, fault, salt) ==
    LET auth == get_optional_current_user(authorization, employees, now, lookup_fails)
        r == IF auth.kind \in {"none", "user"}
             THEN create_employee(employees, auth, employee, now, fault, salt)
             ELSE [resp |-> Unhandled, store |-> employees]
    IN
    /\ employees' = r.store
    /\ last' = [op |-> "create_employee", authorization |-> authorization,
                lookup_fails |-> lookup_fails, fault |-> fault, at |-> now,
                auth |-> auth, employee |-> employee,
                existed |-> employee.username \in Usernames(employees),
                rows_before |-> Len(employees)] @@ Response(r.resp)
    /\ UNCHANGED <<now, rateVars, concVars>>

\* GET /employees/me
GetMyProfile(authorization, lookup_fails) ==
    LET auth == RequiredUser(authorization, employees, now, lookup_fails)
        r == IF auth.kind = "user" THEN get_my_profile(auth.user) ELSE auth
    IN
    /\ last' = [op |-> "get_my_profile", authorization |-> authorization,
                lookup_fails |-> lookup_fails, at |-> now, auth |-> auth] @@ Response(r)
    /\ UNCHANGED <<now, employees, rateVars, concVars>>

AuthTickStep ==
    /\ now + AuthTick <= MaxAuthTime
    /\ now' = now + AuthTick
    /\ UNCHANGED <<employees, last, rateVars, concVars>>

InitAuth == InitRate

NextAuth ==
    \/ \E h \in AuthHeaders(employees, now), e \in AuthCreateRequests, lf \in BOOLEAN :
            /\ Len(employees) < MaxAuthRows
            /\ CreateEmployee(h, e, lf, "none", "salt1")
    \/ \E h \in AuthHeaders(employees, now), lf \in BOOLEAN : GetMyProfile(h, lf)
    \/ AuthTickStep

SpecAuth == InitAuth /\ [][NextAuth]_vars

\* ------------------------------------------------------------ service tokens

\* mutant: any token signed with the secret passes
validate_service_token_any_claims(token, t) ==
    LET d == jwt_decode(token, jwt_secret, t) IN
    IF d.err # None THEN <<>> ELSE <<d.payload>>

\* the errors of jwt.decode that are jwt.InvalidTokenError or a subclass of it
InvalidTokenErrors == {"DecodeError", "InvalidSignatureError", "ExpiredSignatureError"}

\* mutant: only jwt.ExpiredSignatureError is caught
validate_service_token_expired_only(token, t) ==
    LET d == jwt_decode(token, jwt_secret, t) IN
    IF d.err # None
    THEN IF d.err = "ExpiredSignatureError" THEN <<>> ELSE <<"raise", d.err>>
    ELSE IF ~Get(d.payload, "service", FALSE) THEN <<>>
    ELSE <<d.payload>>

\* service_auth.validate_service_token: <<>> for None, <<payload>> for a
\* payload, <<"raise", error>> for an exception that leaves the function
validate_service_token(token, t) ==
    LET d == jwt_decode(token, jwt_secret, t) IN
    IF d.err # None
    THEN IF d.err = "ExpiredSignatureError" \/ d.err \in InvalidTokenErrors
         THEN <<>> ELSE <<"raise", d.err>>
    ELSE IF ~Get(d.payload, "service", FALSE) THEN <<>>
    ELSE <<d.payload>>

\* service_auth.verify_service_token, after its dependency returned the
\* service name
verify_service_token(authorization, t) ==
    IF ~authorization.present \/ authorization.s = <<>>
       \/ ~StartsWithBearer(authorization.s)
    THEN [kind |-> "http", status |-> 401,
          detail |-> "Missing or invalid Authorization header",
          headers |-> [h \in {"WWW-Authenticate"} |-> "Bearer"]]
    ELSE LET payload == validate_service_token(
                            ParseToken(ReplaceBearer(authorization.s)), t) IN
         IF Len(payload) = 2
         THEN [kind |-> "fault", status |-> 500, detail |-> payload[2], headers |-> <<>>]
         ELSE IF payload = <<>>
         THEN [kind |-> "http", status |-> 401, detail |-> "Invalid or expired token",
               headers |-> [h \in {"WWW-Authenticate"} |-> "Bearer"]]
         ELSE IF ~({"sub", "exp"} \subseteq DOMAIN payload[1])
         THEN [kind |-> "fault", status |-> 500, detail |-> "KeyError", headers |-> <<>>]
         ELSE [kind |-> "ok", status |-> 200, headers |-> <<>>,
               body |-> [valid |-> TRUE, service |-> payload[1].sub,
                         expires_at |-> payload[1].exp]]

TokenTick == 1800
MaxTokenTime == 5400

TokenTimes == {i * TokenTick : i \in 0..(MaxTokenTime \div TokenTick)}

ServiceNames == {RegistryOrder[i] : i \in 1..Len(RegistryOrder)} \cup {"x"}

TokenUsers == {"alice", "analytics-service"}

MintedServiceTokens(t) ==
    {get_service_token(x, t0 + rd[1], t0 + rd[2]).access_token :
        x \in ServiceNames, t0 \in {y \in TokenTimes : y <= t}, rd \in ClockReads}

\* tokens of users: as issued, and with a service claim of false
UserBearerTokens(t) ==
    UNION {{create_access_token(u, t0),
            jwt_encode(UserPayload(u, t0) @@ [service |-> FALSE], jwt_secret)} :
                u \in TokenUsers, t0 \in {y \in TokenTimes : y <= t}}

OtherTokens(t) ==
    {Garbage,
     jwt_encode(ServicePayload("x", t, t), "attacker-secret"),
     [fmt |-> "jwt",
      payload |-> [ServicePayload("x", 0, 0) EXCEPT !.exp = MaxTokenTime + 1],
      sig |-> [key |-> jwt_secret, over |-> ServicePayload("x", 0, 0)]]}

\* validate_service_token(token) called at the current time
ValidateToken(token) ==
    /\ last' = [op |-> "validate_service_token", token |-> token, at |-> now,
                result |-> validate_service_token(token, now)]
    /\ UNCHANGED <<now, employees, rateVars, concVars>>

TokenTickStep ==
    /\ now + TokenTick <= MaxTokenTime
    /\ now' = now + TokenTick
    /\ UNCHANGED <<employees, last, rateVars, concVars>>

InitToken == InitRate

NextToken ==
    \/ \E k \in MintedServiceTokens(now) \cup UserBearerTokens(now) \cup OtherTokens(now) :
            ValidateToken(k)
    \/ TokenTickStep

SpecToken == InitToken /\ [][NextToken]_vars

\* ------------------------------------------------------------ employee requests

MaxEmpRows == 3

\* the table as deployed: one administrator, inserted directly into the store
SeedAdmin ==
    NewRow(<<>>, EmployeeCreate("root", "pw0", "admin"), "admin", 0, "salt0")

\* the username of the next registration that is not taken yet
FreshName(store) == "user" \o ToString(Len(store) + 1)

RequestedRoles == {"employee", "hr", "manager", "admin", "intern"}

EmpCreateRequests(store) ==
    {EmployeeCreate(u, "pw1", r) : u \in {"root", FreshName(store)}, r \in RequestedRoles}

EmpHeaders(store, t) ==
    {Absent, Hdr(<<Bearer, Tok(Garbage)>>)}
    \cup {Hdr(<<Bearer, Tok(create_access_token(u, t))>>) : u \in Usernames(store)}

\* the salary body, as the text of the number
Salaries == {"50000.0"}

\* PUT /employees/{employee_id}/salary
UpdateSalary(authorization, employee_id, salary_payload, lookup_fails, fault) ==
    LET auth == RequiredUser(authorization, employees, now, lookup_fails)
        r == IF auth.kind = "user"
             THEN update_salary(employees, auth.user, employee_id, salary_payload, fault)
             ELSE [resp |-> auth, store |-> employees]
    IN
    \* the store answers only when it is called, past the 403 of line 246
    /\ fault # "none" => auth.kind = "user" /\ auth.user.role \in PrivilegedRoles
    /\ employees' = r.store
    /\ last' = [op |-> "update_salary", authorization |-> authorization,
                lookup_fails |-> lookup_fails, fault |-> fault, at |-> now,
                auth |-> auth, employee_id |-> employee_id,
                salary_payload |-> salary_payload] @@ Response(r.resp)
    /\ UNCHANGED <<now, rateVars, concVars>>

InitEmp ==
    /\ now = 0
    /\ rate_limit_store = <<>>
    /\ window = <<>>
    /\ last = NoRequest
    /\ InitConcVars
    /\ employees = <<SeedAdmin>>

NextEmp ==
    \/ \E h \in EmpHeaders(employees, now), e \in EmpCreateRequests(employees),
          fault \in StoreFaults :
            /\ Len(employees) < MaxEmpRows
            /\ CreateEmployee(h, e, FALSE, fault, "salt1")
    \/ \E h \in EmpHeaders(employees, now), id \in 1..(Len(employees) + 1),
          s \in Salaries, fault \in StoreFaults :
            UpdateSalary(h, id, s, FALSE, fault)

SpecEmp == InitEmp /\ [][NextEmp]_vars

\* ------------------------------------------------------------ profile requests

MaxProfRows == 2

\* request bodies of PUT /employees/me and PUT /employees/admin/{id}: empty,
\* and one that sets a profile field along with fields the routes do not offer
ProfileBodies ==
    {<<>>, [job_title |-> "b", role |-> "admin", salary |-> "1.0", username |-> "root"]}

\* the EmployeeUpdate models parsed from them: no field set, one field set
ProfileUpdates == {EmployeeUpdate(b) : b \in ProfileBodies}

ProfCreateRequests(store) ==
    {EmployeeCreate(FreshName(store), "pw1", r) : r \in {"employee", "manager"}}

\* PUT /employees/me
UpdateMyProfile(authorization, employee_update, lookup_fails, fault) ==
    LET auth == RequiredUser(authorization, employees, now, lookup_fails)
        r == IF auth.kind = "user"
             THEN update_my_profile(employees, auth.user, employee_update, fault)
             ELSE [resp |-> auth, store |-> employees]
    IN
    /\ fault # "none" => auth.kind = "user" /\ DOMAIN employee_update # {}
    /\ employees' = r.store
    /\ last' = [op |-> "update_my_profile", authorization |-> authorization,
                lookup_fails |-> lookup_fails, fault |-> fault, at |-> now,
                auth |-> auth, payload |-> employee_update] @@ Response(r.resp)
    /\ UNCHANGED <<now, rateVars, concVars>>

\* PUT /employees/admin/{employee_id_to_update}
AdminUpdateEmployeeProfile(authorization, employee_id_to_update, employee_update_data, lookup_fails, fault) ==
    LET auth == RequiredUser(authorization, employees, now, lookup_fails)
        r == IF auth.kind = "user"
             THEN admin_update_employee_profile(employees, auth.user,
                        employee_id_to_update, employee_update_data, fault)
             ELSE [resp |-> auth, store |-> employees]
    IN
    /\ fault # "none" =>
          /\ auth.kind = "user" /\ auth.user.role \in PrivilegedRoles
          /\ DOMAIN employee_update_data # {}
    /\ employees' = r.store
    /\ last' = [op |-> "admin_update_employee_profile",
                authorization |-> authorization, lookup_fails |-> lookup_fails,
                fault |-> fault, at |-> now, auth |-> auth,
                employee_id |-> employee_id_to_update,
                payload |-> employee_update_data] @@ Response(r.resp)
    /\ UNCHANGED <<now, rateVars, concVars>>

InitProf == InitEmp

NextProf ==
    \/ \E h \in EmpHeaders(employees, now), e \in ProfCreateRequests(employees) :
            /\ Len(employees) < MaxProfRows
            /\ CreateEmployee(h, e, FALSE, "none", "salt1")
    \/ \E h \in EmpHeaders(employees, now), u \in ProfileUpdates, fault \in StoreFaults :
            UpdateMyProfile(h, u, FALSE, fault)
    \/ \E h \in EmpHeaders(employees, now), id \in 1..(Len(employees) + 1),
          u \in ProfileUpdates, fault \in StoreFaults :
            AdminUpdateEmployeeProfile(h, id, u, FALSE, fault)
    \/ \E h \in EmpHeaders(employees, now), id \in 1..(Len(employees) + 1),
          sal \in Salaries :
            UpdateSalary(h, id, sal, FALSE, "none")
    \/ \E h \in EmpHeaders(employees, now) : GetMyProfile(h, FALSE)

SpecProf == InitProf /\ [][NextProf]_vars

\* ------------------------------------------------------------ login requests

MaxLoginRows == 2

LoginNames == {"alice", "bob"}

Passwords == {"", "pw1", "pw2"}

Salts == {"salt1", "salt2"}

CreatedPasswords == {"", "pw1"}

LoginCreateRequests ==
    {EmployeeCreate(u, p, "employee") : u \in LoginNames, p \in CreatedPasswords}

LoginTick == 900
MaxLoginTime == 2700

LoginTimes == {i * LoginTick : i \in 0..(MaxLoginTime \div LoginTick)}

\* the tokens successful logins have returned by time t
LoginTokens(store, t) ==
    UNION {{create_access_token(store[i].username, t0) :
                t0 \in {x \in LoginTimes : store[i].created_at <= x /\ x <= t}} :
            i \in {j \in 1..Len(store) : ~FormMissing(store[j].password_hash.pw)}}

LoginHeaders(store, t) ==
    {Absent} \cup {Hdr(<<Bearer, Tok(k)>>) : k \in LoginTokens(store, t)}

LoginTickStep ==
    /\ now + LoginTick <= MaxLoginTime
    /\ now' = now + LoginTick
    /\ UNCHANGED <<employees, last, rateVars, concVars>>

\* POST /token
Login(username, password, lookup_fails) ==
    LET r == PostToken(employees, username, password, now, lookup_fails) IN
    /\ lookup_fails => ~FormMissing(username) /\ ~FormMissing(password)
    /\ last' = [op |-> "login", username |-> username, password |-> password,
                lookup_fails |-> lookup_fails, at |-> now,
                existed |-> username \in Usernames(employees)] @@ Response(r)
    /\ UNCHANGED <<now, employees, rateVars, concVars>>

InitLogin == InitRate

NextLogin ==
    \/ \E e \in LoginCreateRequests, salt \in Salts :
            /\ Len(employees) < MaxLoginRows
            /\ CreateEmployee(Absent, e, FALSE, "none", salt)
    \/ \E u \in LoginNames \cup {None, ""}, pw \in Passwords \cup {None},
          lf \in BOOLEAN :
            Login(u, pw, lf)
    \/ \E h \in LoginHeaders(employees, now) : GetMyProfile(h, FALSE)
    \/ LoginTickStep

SpecLogin == InitLogin /\ [][NextLogin]_vars

\* ------------------------------------------------------------ key requests

MaxKeyCount == 2
MaxKeyTime == 120

KeyHosts == {"10.0.0.1", "10.0.0.2"}

KeyTickStep ==
    /\ now + RATE_LIMIT_WINDOW <= MaxKeyTime
    /\ now' = now + RATE_LIMIT_WINDOW
    /\ UNCHANGED <<employees, rate_limit_store, window, last, concVars>>

InitKeys == InitRate

NextKeys ==
    \/ \E k \in ApiKeys, h \in KeyHosts, reads \in ClockReads :
            /\ \A e \in DOMAIN rate_limit_store :
                    rate_limit_store[e].count < MaxKeyCount
            /\ ServiceToken(k, h, reads)
    \/ KeyTickStep

SpecKeys == InitKeys /\ [][NextKeys]_vars

\* ------------------------------------------------------------ verify requests

VerifyTick == 1800
MaxVerifyTime == 3600

VerifyTimes == {i * VerifyTick : i \in 0..(MaxVerifyTime \div VerifyTick)}

VerifyApiKeys == {None, "key-analytics", "key-wrong"}

\* tokens a caller of /services/verify may hold at time t
VerifyTokens(t) ==
    {get_service_token(sv, t0, t0).access_token :
        sv \in ConfiguredServices, t0 \in {x \in VerifyTimes : x <= t}}
    \cup {create_access_token("alice", 0), Garbage}

VerifyHeaders(t) ==
    {Absent, Hdr(<<>>), Hdr(<<Bearer>>)}
    \cup UNION {{Hdr(<<Bearer, Tok(k)>>), Hdr(<<Bearer, Bearer, Tok(k)>>),
                 Hdr(<<Lit("Basic "), Tok(k)>>), Hdr(<<Tok(k)>>)} : k \in VerifyTokens(t)}

\* GET /services/verify
VerifyServiceToken(api_key, host, authorization) ==
    LET d == get_service_from_api_key(rate_limit_store, api_key, host, now)
        m == IF Truthy(api_key) THEN ScanKeys(api_key, 1) ELSE [kind |-> "nomatch"]
        key == IF m.kind = "match" THEN RateKey(m.service, host) ELSE NoKey
        r == IF d.kind = "ok" THEN verify_service_token(authorization, now)
             ELSE [kind |-> d.kind, status |-> d.status, detail |-> d.detail,
                   headers |-> d.headers]
    IN
    /\ rate_limit_store' = d.store
    /\ window' = IF key # NoKey THEN NextWindow(window, key, now) ELSE window
    /\ last' = [op |-> "verify_service_token", api_key |-> api_key, host |-> host,
                at |-> now, key |-> key, authorization |-> authorization,
                dependency |-> d.kind] @@ Response(r)
    /\ UNCHANGED <<employees, now, concVars>>

VerifyTickStep ==
    /\ now + VerifyTick <= MaxVerifyTime
    /\ now' = now + VerifyTick
    /\ UNCHANGED <<employees, rate_limit_store, window, last, concVars>>

InitVerify == InitRate

NextVerify ==
    \/ \E k \in VerifyApiKeys, h \in Hosts, a \in VerifyHeaders(now) :
            /\ \A e \in DOMAIN rate_limit_store :
                    rate_limit_store[e].count < MaxKeyCount
            /\ VerifyServiceToken(k, h, a)
    \/ VerifyTickStep

SpecVerify == InitVerify /\ [][NextVerify]_vars

\* ------------------------------------------------------------ role requests

MaxRoleRows == 3

\* request bodies of the update routes, as a client may send them
UpdateBodies == {<<>>, [role |-> "admin"], [job_title |-> "a", role |-> "hr"]}

RoleCreateRequests(store) ==
    {EmployeeCreate(FreshName(store), "pw1", r) : r \in RequestedRoles}

\* the table before any administrator is provisioned, or with the seeded one
InitRole ==
    /\ now = 0
    /\ rate_limit_store = <<>>
    /\ window = <<>>
    /\ last = NoRequest
    /\ InitConcVars
    /\ employees \in {<<>>, <<SeedAdmin>>}

NextRole ==
    \/ \E h \in EmpHeaders(employees, now), e \in RoleCreateRequests(employees),
          fault \in {"none", "nodata"} :
            /\ Len(employees) < MaxRoleRows
            /\ CreateEmployee(h, e, FALSE, fault, "salt1")
    \/ \E h \in EmpHeaders(employees, now), b \in UpdateBodies :
            UpdateMyProfile(h, EmployeeUpdate(b), FALSE, "none")
    \/ \E h \in EmpHeaders(employees, now), id \in 1..(Len(employees) + 1),
          b \in UpdateBodies :
            AdminUpdateEmployeeProfile(h, id, EmployeeUpdate(b), FALSE, "none")
    \/ \E h \in EmpHeaders(employees, now), id \in 1..(Len(employees) + 1),
          sal \in Salaries :
            UpdateSalary(h, id, sal, FALSE, "none")

SpecRole == InitRole /\ [][NextRole]_vars

\* ------------------------------------------------------------ concurrent registrations
\* create_employee makes two round trips to the store, the username query of
\* line 66 and the insert of line 99.  Within one server process the handler
\* body has no suspension point; server processes that share the store (workers
\* of one deployment) each handle a request of their own, and their round
\* trips interleave.  th[w] is the request worker w has in hand.

MaxRaceRows == 3

Workers == Threads

RaceNames == {"alice", "bob"}

RaceCreateRequests ==
    {EmployeeCreate(u, "pw1", r) : u \in RaceNames, r \in {"employee", "manager"}}

\* lines 59-84 of a request on worker w
RaceCheck(w, authorization, employee) ==
    LET auth == get_optional_current_user(authorization, employees, now, FALSE)
        c == create_employee_check(employees, auth, employee)
    IN
    /\ th[w].pc = "idle"
    /\ Len(employees) + Cardinality({u \in Workers : th[u].pc = "L86"}) < MaxRaceRows
    /\ IF c.kind = "reject"
       THEN /\ last' = [op |-> "create_employee", authorization |-> authorization,
                        lookup_fails |-> FALSE, fault |-> "none", at |-> now,
                        auth |-> auth, employee |-> employee,
                        existed |-> employee.username \in Usernames(employees),
                        rows_before |-> Len(employees)] @@ Response(c.resp)
            /\ UNCHANGED th
       ELSE /\ th' = [th EXCEPT ![w] = [pc |-> "L86", authorization |-> authorization,
                                        auth |-> auth, employee |-> employee,
                                        assigned_role |-> c.assigned_role]]
            /\ UNCHANGED last
    /\ UNCHANGED <<employees, now, rateVars, heap, store_ref, burst>>

\* lines 86-111 of the request worker w has in hand
RaceInsert(w) ==
    /\ th[w].pc = "L86"
    /\ LET r == create_employee_insert(employees, th[w].employee,
                                       th[w].assigned_role, now, "salt1")
       IN
       /\ employees' = r.store
       /\ last' = [op |-> "create_employee", authorization |-> th[w].authorization,
                   lookup_fails |-> FALSE, fault |-> "none", at |-> now,
                   auth |-> th[w].auth, employee |-> th[w].employee,
                   existed |-> th[w].employee.username \in Usernames(employees),
                   rows_before |-> Len(employees)] @@ Response(r.resp)
    /\ th' = [th EXCEPT ![w] = Idle]
    /\ UNCHANGED <<now, rateVars, heap, store_ref, burst>>

InitRace == InitRate

NextRace ==
    \/ \E w \in Workers, h \in EmpHeaders(employees, now), e \in RaceCreateRequests :
            RaceCheck(w, h, e)
    \/ \E w \in Workers : RaceInsert(w)

SpecRace == InitRace /\ [][NextRace]_vars

\* ------------------------------------------------------------ lookup requests
\* Every route that returns employee records: the two lookups that take no user
\* authentication, registration, the profile routes and the salary route.

MaxPubRows == 2

\* the name query parameter (None: absent)
SearchNames == {None, "a", "ROOT", "a a", "user", "zz"}

\* X-Service-API-Key as the lookups read it
LookupTokens == {None, "key-analytics"}

LookupFaults == {"none", "raises", "error"}

\* the context of an MCP request: absent, or given by the caller
McpContexts == {<<>>, <<[request_id |-> "r1", caller |-> "client"]>>}

McpRequests(store) ==
    {[action |-> "get_employee", parameters |-> [employee_id |-> i], context |-> c] :
        i \in 0..(Len(store) + 1), c \in McpContexts}
    \cup {[action |-> "search_employees", parameters |-> [name |-> n], context |-> <<>>] :
            n \in {"", "a", "zz"}}
    \cup {[action |-> "search_employees",
           parameters |-> [name |-> "user", limit |-> 1], context |-> <<>>]}
    \cup {[action |-> a, parameters |-> q, context |-> <<>>] :
            a \in {"list_employees", "delete_employee"}, q \in {<<>>, [limit |-> 1]}}

\* GET /employees/api/employee
GetEmployeeByIdOrName(employee_id, name, service_token, fault) ==
    LET r == get_employee_by_id_or_name(employees, employee_id, name, fault) IN
    \* only the filtered query tests result.error (line 328)
    /\ fault = "error" => employee_id # NoEmployeeId \/ Truthy(name)
    /\ last' = [op |-> "get_employee_by_id_or_name", employee_id |-> employee_id,
                name |-> name, service_token |-> service_token, fault |-> fault,
                at |-> now, shape |-> r.shape] @@ Response(r.resp)
    /\ UNCHANGED <<employees, now, rateVars, concVars>>

\* POST /employees/api/mcp
EmployeeMcp(request, service_token, fault) ==
    LET r == employee_mcp(employees, request, service_token, fault, now) IN
    /\ fault # "none" => r.resp.body.status = "error"
    /\ last' = [op |-> "employee_mcp", request |-> request,
                service_token |-> service_token, fault |-> fault, at |-> now,
                shape |-> r.shape] @@ Response(r.resp)
    /\ UNCHANGED <<employees, now, rateVars, concVars>>

InitPub == InitEmp

NextPub ==
    \/ \E h \in EmpHeaders(employees, now), e \in ProfCreateRequests(employees) :
            /\ Len(employees) < MaxPubRows
            /\ CreateEmployee(h, e, FALSE, "none", "salt1")
    \/ \E h \in EmpHeaders(employees, now), id \in 1..Len(employees), sal \in Salaries :
            UpdateSalary(h, id, sal, FALSE, "none")
    \/ \E h \in EmpHeaders(employees, now) : GetMyProfile(h, FALSE)
    \/ \E h \in EmpHeaders(employees, now) :
            UpdateMyProfile(h, [job_title |-> "b"], FALSE, "none")
    \/ \E h \in EmpHeaders(employees, now), id \in 1..Len(employees) :
            AdminUpdateEmployeeProfile(h, id, [job_title |-> "b"], FALSE, "none")
    \/ \E id \in 0..(Len(employees) + 1), n \in SearchNames, k \in LookupTokens,
          fault \in LookupFaults :
            \* a name sent along with an id is not read; the key is only logged
            /\ id # NoEmployeeId => n = None
            /\ fault # "none" => k = None
            /\ GetEmployeeByIdOrName(id, n, k, fault)
    \/ \E q \in McpRequests(employees), k \in LookupTokens, fault \in LookupFaults :
            /\ fault # "none" => k = None
            /\ EmployeeMcp(q, k, fault)

SpecPub == InitPub /\ [][NextPub]_vars

\* ------------------------------------------------------------ claims

Keyed == last.op = "service_token" /\ last.key # NoKey

\* C1: of the authenticated requests one key receives inside one window, the
\* first RATE_LIMIT_MAX are allowed and every later one is answered 429 with
\* Retry-After: 60.
C1_WindowAllowsAtMostMax ==
    Keyed =>
        IF window[last.key].seen <= RATE_LIMIT_MAX
        THEN last.status = 200
        ELSE /\ last.status = 429
             /\ last.headers = [h \in {"Retry-After"} |-> "60"]

\* C2: under every interleaving of concurrent calls on one key no increment is
\* lost, so the requests allowed at one instant (hence inside one window) number
\* at most RATE_LIMIT_MAX.
C2_NoLostIncrement == burst.allowed <= RATE_LIMIT_MAX

C1_Witness ==
    /\ Keyed
    /\ window[last.key].seen = RATE_LIMIT_MAX + 1
    /\ last.status = 429

\* C3: a request that arrives at or after the stored reset time of its key sets
\* the count to 1 and the reset time to now + RATE_LIMIT_WINDOW and is allowed,
\* whatever the count of the previous window was.
C3_ElapsedWindowResets ==
    (Keyed /\ last.before # <<>> /\ last.at >= last.before[1].reset_at) =>
        /\ rate_limit_store[last.key] =
              [count |-> 1, reset_at |-> last.at + RATE_LIMIT_WINDOW]
        /\ last.status = 200

C3_Witness ==
    /\ Keyed
    /\ last.before # <<>>
    /\ last.before[1].count > RATE_LIMIT_MAX
    /\ last.at = last.before[1].reset_at
    /\ last.status = 200

\* ---- service token claims

\* C5: the token minted for a service name x is accepted by
\* validate_service_token while unexpired, and the payload returned has
\* sub = x; a token signed with the same secret that has no service claim, or
\* a service claim of false, is rejected.
C5_MintedAcceptedUserRejected ==
    last.op = "validate_service_token" =>
        /\ \A x \in ServiceNames, t0 \in TokenTimes, rd \in ClockReads :
              (/\ last.token = get_service_token(x, t0 + rd[1], t0 + rd[2]).access_token
               /\ last.at < last.token.payload.exp)
                  => /\ last.result = <<last.token.payload>>
                     /\ last.result[1].sub = x
        /\ (/\ last.token.fmt = "jwt"
            /\ last.token.sig = [key |-> jwt_secret, over |-> last.token.payload]
            /\ ~Get(last.token.payload, "service", FALSE))
               => last.result = <<>>

C5_Witness ==
    /\ last.op = "validate_service_token"
    /\ last.token \in MintedServiceTokens(last.at)
    /\ last.token.payload.iat < last.at
    /\ last.at < last.token.payload.exp
    /\ last.result # <<>>
    /\ last.result[1].sub = "x"

CarriedToken(authorization) == ParseToken(Tail(authorization.s))

BearerForm(authorization) ==
    authorization.present /\ StartsWithBearer(authorization.s)

ValidAt(token, t) == jwt_decode(token, jwt_secret, t).err = None

ProtectedOps ==
    {"get_my_profile", "update_my_profile", "admin_update_employee_profile",
     "update_salary"}

\* C4: a service token presented as "Bearer <token>" where a user identity is
\* resolved never resolves to an identity.
C4_ServiceTokenNeverUser ==
    (/\ last.op \in {"get_my_profile", "create_employee"}
     /\ \E k \in ServiceTokens(MaxAuthTime) : last.authorization = Hdr(<<Bearer, Tok(k)>>))
        => last.auth.kind # "user"

\* C6: get_required_current_user returns an identity only for a header of the
\* form "Bearer <token>" whose token is well formed, rightly signed, unexpired
\* and has a subject found in the table.
C6_RequiredOnlyValidToken ==
    (last.op = "get_my_profile" /\ last.auth.kind = "user") =>
        /\ BearerForm(last.authorization)
        /\ ValidAt(CarriedToken(last.authorization), last.at)
        /\ CarriedToken(last.authorization).payload.sub \in Usernames(employees)

\* C7: a protected employee route answers 401 with WWW-Authenticate: Bearer
\* when the Authorization header is absent, is not of the form "Bearer <token>",
\* or carries an invalid or expired token.
C7_ProtectedRoutesAnswer401 ==
    (/\ last.op \in ProtectedOps
     /\ \/ ~BearerForm(last.authorization)
        \/ ~ValidAt(CarriedToken(last.authorization), last.at))
        => /\ last.status = 401
           /\ last.headers = [h \in {"WWW-Authenticate"} |-> "Bearer"]

\* C8: get_optional_current_user never raises; it returns an identity only when
\* the header starts with "Bearer ", the token it validates is valid and the
\* lookup finds its subject, and None in every other case.
C8_OptionalNeverRaises ==
    last.op = "create_employee" =>
        /\ last.auth.kind \in {"none", "user"}
        /\ last.auth.kind = "user" =>
              LET token == ParseToken(ReplaceBearer(last.authorization.s)) IN
              /\ BearerForm(last.authorization)
              /\ ~last.lookup_fails
              /\ ValidAt(token, last.at)
              /\ last.auth.user.username = token.payload.sub
              /\ last.auth.user.username \in Usernames(employees)

C8_Witness ==
    /\ last.op = "create_employee"
    /\ last.lookup_fails
    /\ BearerForm(last.authorization)
    /\ ValidAt(CarriedToken(last.authorization), last.at)
    /\ CarriedToken(last.authorization).payload.sub \in Usernames(employees)
    /\ last.auth.kind = "none"
    /\ last.status = 201

\* ---- authorization claims

CallerIsHrOrAdmin ==
    last.auth.kind = "user" /\ last.auth.user.role \in {"hr", "admin"}

\* the request of `last` inserted a row carrying the role it asked for
GrantedRequestedRole ==
    /\ last.status = 201
    /\ Len(employees) = last.rows_before + 1
    /\ employees[Len(employees)].username = last.employee.username
    /\ employees[Len(employees)].role = last.employee.role

\* a registration the store takes: fresh username, no store failure
CreateTaken ==
    last.op = "create_employee" /\ ~last.existed /\ last.fault = "none"

RejectedPrivileged ==
    (/\ last.op = "create_employee" /\ ~last.existed /\ last.fault # "check_raises"
     /\ last.employee.role \in PrivilegedRoles
     /\ ~CallerIsHrOrAdmin)
        => last.status = 403 /\ Len(employees) = last.rows_before

\* C9 as stated: create_employee grants the requested role iff that role is
\* "employee" or the caller is authenticated as hr or admin; a privileged role
\* asked by anyone else is answered 403 and nothing is inserted.
C9_GrantsIffDefaultOrHrAdmin ==
    /\ CreateTaken =>
          (GrantedRequestedRole <=> (last.employee.role = "employee" \/ CallerIsHrOrAdmin))
    /\ RejectedPrivileged

\* C9 amended: the requested role is granted iff it is "employee", or it is one
\* of hr, manager, admin and the caller is authenticated as hr or admin; any
\* other requested role is stored as "employee" whoever asks; a privileged role
\* asked by anyone else is answered 403 and nothing is inserted.
C9_GrantsKnownRolesOnly ==
    /\ CreateTaken =>
          /\ GrantedRequestedRole <=>
                \/ last.employee.role = "employee"
                \/ last.employee.role \in PrivilegedRoles /\ CallerIsHrOrAdmin
          /\ last.employee.role \notin PrivilegedRoles \cup {"employee"} =>
                /\ last.status = 201
                /\ Len(employees) = last.rows_before + 1
                /\ employees[Len(employees)].role = "employee"
    /\ RejectedPrivileged

C9_Witness ==
    /\ CreateTaken
    /\ CallerIsHrOrAdmin
    /\ last.employee.role = "intern"
    /\ last.status = 201
    /\ employees[Len(employees)].role = "employee"

SalaryChanged ==
    \E i \in 1..Len(employees) : employees'[i].salary # employees[i].salary

\* C10: a salary changes only in an update_salary call whose authenticated
\* caller has role hr, manager or admin; a caller of any other role, the owner
\* of the targeted row included, is answered 403 and the store is not written.
C10_SalaryOnlyByPrivileged ==
    [][/\ SalaryChanged =>
            /\ last'.op = "update_salary"
            /\ last'.auth.kind = "user"
            /\ last'.auth.user.role \in {"hr", "manager", "admin"}
       /\ (/\ last'.op = "update_salary"
           /\ last'.auth.kind = "user"
           /\ last'.auth.user.role \notin {"hr", "manager", "admin"})
              => last'.status = 403 /\ employees' = employees]_vars

C10_Witness ==
    /\ last.op = "update_salary"
    /\ last.auth.kind = "user"
    /\ last.auth.user.role = "employee"
    /\ last.employee_id = last.auth.user.id
    /\ last.status = 403
    /\ \E i \in 1..Len(employees) :
            employees[i].id = last.employee_id /\ employees[i].salary = None
    /\ \E i \in 1..Len(employees) : employees[i].salary # None

\* ---- profile claims

ProfileChanged(i) ==
    \E f \in ProfileFields : employees'[i][f] # employees[i][f]

\* C11: the record of an employee other than the caller changes only in an
\* admin_update_employee_profile call whose authenticated caller has role hr,
\* manager or admin; a caller of any other role is answered 403 and the store
\* is not written.
C11_AdminUpdateOnlyByPrivileged ==
    [][/\ \A i \in 1..Len(employees) :
            ProfileChanged(i) =>
                \/ /\ last'.op = "admin_update_employee_profile"
                   /\ last'.auth.kind = "user"
                   /\ last'.auth.user.role \in {"hr", "manager", "admin"}
                   /\ last'.employee_id = employees[i].id
                \/ /\ last'.op = "update_my_profile"
                   /\ last'.auth.kind = "user"
                   /\ last'.auth.user.id = employees[i].id
       /\ (/\ last'.op = "admin_update_employee_profile"
           /\ last'.auth.kind = "user"
           /\ last'.auth.user.role \notin {"hr", "manager", "admin"})
              => last'.status = 403 /\ employees' = employees]_vars

C11_Witness ==
    /\ last.op = "admin_update_employee_profile"
    /\ last.auth.kind = "user"
    /\ last.auth.user.role = "employee"
    /\ last.employee_id # last.auth.user.id
    /\ \E i \in 1..Len(employees) : employees[i].id = last.employee_id
    /\ DOMAIN last.payload # {}
    /\ last.status = 403

\* C12: an authenticated actor sees the salary of a record iff the actor has
\* role hr, manager or admin or the record is the actor's own; in particular an
\* employee who reads their own record sees their salary.
C12_OwnSalaryVisible ==
    (/\ last.op = "get_my_profile"
     /\ last.status = 200
     /\ last.auth.user.role = "employee"
     /\ last.auth.user.salary # None)
        => /\ last.body.id = last.auth.user.id
           /\ "salary" \in DOMAIN last.body
           /\ last.body.salary = last.auth.user.salary

\* ---- login claims

SuppliedLogin ==
    /\ last.op = "login"
    /\ ~last.lookup_fails
    /\ last.username # None
    /\ last.password # None

\* the password of `last` is the one the row of its username was created with
PasswordOfRow ==
    \E i \in 1..Len(employees), salt \in Salts :
        /\ employees[i].username = last.username
        /\ employees[i].password_hash = get_password_hash(last.password, salt)

\* C13: POST /token answers 401, "Incorrect username or password",
\* WWW-Authenticate: Bearer both when the username matches no record and when
\* it exists and the password is wrong, an empty username or password included.
C13_LoginFailuresAlike ==
    (SuppliedLogin /\ (~last.existed \/ ~PasswordOfRow)) =>
        /\ last.status = 401
        /\ last.body = [detail |-> "Incorrect username or password"]
        /\ last.headers = [h \in {"WWW-Authenticate"} |-> "Bearer"]

\* C14: once create_employee(u, p) has succeeded, POST /token with (u, p) answers
\* 200 with an access_token and token_type "bearer", and with (u, p') for p' # p
\* answers 401; a stored row holds password_hash and no password field.
C14_CreatedUserLogsIn ==
    /\ (SuppliedLogin /\ last.existed) =>
          IF PasswordOfRow
          THEN /\ last.status = 200
               /\ DOMAIN last.body = {"access_token", "token_type"}
               /\ last.body.token_type = "bearer"
          ELSE last.status = 401
    /\ \A i \in 1..Len(employees) :
          "password" \notin DOMAIN employees[i] /\ "password_hash" \in DOMAIN employees[i]

\* C15: the token of a successful login gets 200 and the record of the user who
\* logged in from GET /employees/me at every time before its exp, and 401 at
\* every time after its exp.
C15_LoginTokenLivesUntilExp ==
    (last.op = "get_my_profile" /\ last.authorization.present) =>
        \A i \in 1..Len(employees), t0 \in LoginTimes :
            LET row == employees[i]
                r == PostToken(employees, row.username, row.password_hash.pw, t0, FALSE)
            IN
            (/\ row.created_at <= t0 /\ t0 <= last.at
             /\ r.status = 200
             /\ last.authorization = Hdr(<<Bearer, Tok(r.body.access_token)>>))
                => /\ last.at < r.body.access_token.payload.exp =>
                        /\ last.status = 200
                        /\ last.body = Project(row, EmployeeResponseFields)
                   /\ last.at > r.body.access_token.payload.exp =>
                        /\ last.status = 401
                        /\ last.headers = [h \in {"WWW-Authenticate"} |-> "Bearer"]

C15_Witness ==
    /\ last.op = "get_my_profile"
    /\ last.authorization \in LoginHeaders(employees, last.at) \ {Absent}
    /\ last.authorization.s[2].v.payload.iat < last.at
    /\ last.at < last.authorization.s[2].v.payload.exp
    /\ last.status = 200
    /\ Len(employees) = 2

C15_WitnessExpired ==
    /\ last.op = "get_my_profile"
    /\ last.authorization \in LoginHeaders(employees, last.at) \ {Absent}
    /\ last.at > last.authorization.s[2].v.payload.exp
    /\ last.status = 401

\* ---- API key claims

\* C16: a request with no X-Service-API-Key header, or an empty one, is answered
\* 401 "Missing service API key" and leaves the rate-limit table as it was.
C16_MissingKeyRejected ==
    [][(last'.op = "service_token" /\ last'.api_key \in {None, ""}) =>
          /\ last'.status = 401
          /\ last'.body = [detail |-> "Missing service API key"]
          /\ last'.key = NoKey
          /\ rate_limit_store' = rate_limit_store]_vars

C16_Witness ==
    /\ last.op = "service_token"
    /\ last.api_key = ""
    /\ last.status = 401
    /\ DOMAIN rate_limit_store # {}

\* C17: every non-empty presented key that equals no configured registry key
\* is answered 403 "Invalid API key": no service name, no rate-limit entry
\* created or changed, no unhandled fault.
C17_UnknownKeyRejected ==
    (/\ last.op = "service_token"
     /\ last.api_key \notin {None, ""}
     /\ \A sv \in DOMAIN SERVICE_API_KEYS : SERVICE_API_KEYS[sv] # last.api_key)
        => /\ last.status = 403
           /\ last.body = [detail |-> "Invalid API key"]
           /\ last.key = NoKey

\* ---- service token issuance claims

\* C18: the token minted by POST /services/token for service S has sub = S,
\* service = true, iss = "employee-onboarding-api", iat = the time of issuance
\* and exp = iat + 3600 exactly; the response has expires_in = 3600 and
\* service = S.
C18_MintedClaimsExact ==
    (last.op = "service_token" /\ last.status = 200) =>
        LET claims == last.body.access_token.payload IN
        /\ claims.sub = last.key[1]
        /\ claims.service = TRUE
        /\ claims.iss = "employee-onboarding-api"
        /\ claims.iat \in {last.at, last.at + 1}
        /\ claims.exp = claims.iat + SERVICE_TOKEN_LIFETIME
        /\ last.body.expires_in = 3600
        /\ last.body.service = last.key[1]

\* ---- verify claims

\* C20: GET /services/verify called with a valid API key answers
\* {valid: true, service: sub, expires_at: exp} iff the Authorization header is
\* "Bearer " followed by a token validate_service_token accepts; a missing
\* header, a non-Bearer header and a rejected token each get 401 with
\* WWW-Authenticate: Bearer.
C20_VerifyIffAccepted ==
    (last.op = "verify_service_token" /\ last.dependency = "ok") =>
        LET accepted ==
                /\ BearerForm(last.authorization)
                /\ Len(validate_service_token(CarriedToken(last.authorization),
                                              last.at)) = 1
        IN
        IF accepted
        THEN LET claims == CarriedToken(last.authorization).payload IN
             /\ last.status = 200
             /\ last.body = [valid |-> TRUE, service |-> claims.sub,
                             expires_at |-> claims.exp]
        ELSE /\ last.status = 401
             /\ last.headers = [h \in {"WWW-Authenticate"} |-> "Bearer"]

\* ---- store claims

\* C21: create_employee with a username the store already holds, the store
\* answering the existence query, returns 400 "Username already exists" and
\* inserts nothing, whatever the requested role, the caller and the outcome the
\* store would give an insert.
C21_TakenUsernameRejected ==
    [][(/\ last'.op = "create_employee"
        /\ last'.existed
        /\ last'.fault # "check_raises")
          => /\ last'.status = 400
             /\ last'.body = [detail |-> <<"Username already exists">>]
             /\ employees' = employees]_vars

C21_Witness ==
    /\ last.op = "create_employee"
    /\ last.existed
    /\ last.employee.role \in PrivilegedRoles
    /\ last.auth.kind = "none"
    /\ last.fault = "nodata"
    /\ last.status = 400
    /\ Len(employees) = last.rows_before

StoreWritingOps ==
    {"create_employee", "update_my_profile", "admin_update_employee_profile",
     "update_salary"}

\* C22: when the record store raises or answers with an error during
\* create_employee, update_my_profile, admin_update_employee_profile or
\* update_salary, the client receives a 500 whose body does not contain the
\* store's error message.
C22_StoreFaultsGeneric500 ==
    (/\ last.op \in StoreWritingOps
     /\ last.fault \in {"check_raises", "raises", "error"})
        => /\ last.status = 500
           /\ \A i \in DOMAIN last.body.detail : last.body.detail[i] # StoreMessage

\* C23: update_salary and admin_update_employee_profile, called by an actor
\* of role hr, manager or admin with an employee id that matches no record,
\* respond 404 and leave the store unchanged.
C23_UnknownIdAnswers404 ==
    [][(/\ last'.op \in {"update_salary", "admin_update_employee_profile"}
        /\ last'.auth.kind = "user"
        /\ last'.auth.user.role \in PrivilegedRoles
        /\ last'.fault = "none"
        /\ last'.op = "admin_update_employee_profile" => DOMAIN last'.payload # {}
        /\ RowsById(employees, last'.employee_id) = <<>>)
          => last'.status = 404 /\ employees' = employees]_vars

KnownRoles == {"employee", "hr", "manager", "admin"}

NoHrOrAdmin(store) == \A i \in 1..Len(store) : store[i].role \notin {"hr", "admin"}

\* C24: every stored role is one of employee, hr, manager, admin; no request
\* removes a record or changes the role of one; a record with role hr, manager
\* or admin is inserted only by a create_employee request whose caller was
\* authenticated with role hr or admin; hence a store holding no hr or admin
\* record gains no record with a privileged role.
C24_PrivilegedRolesOnlyFromHrAdmin ==
    [][/\ \A i \in 1..Len(employees') : employees'[i].role \in KnownRoles
       /\ Len(employees') >= Len(employees)
       /\ \A i \in 1..Len(employees) : employees'[i].role = employees[i].role
       /\ \A i \in (Len(employees) + 1)..Len(employees') :
             employees'[i].role \in PrivilegedRoles =>
                /\ last'.op = "create_employee"
                /\ last'.auth.kind = "user"
                /\ last'.auth.user.role \in {"hr", "admin"}
       /\ NoHrOrAdmin(employees) =>
             \A i \in (Len(employees) + 1)..Len(employees') :
                employees'[i].role \notin PrivilegedRoles]_vars

C24_Witness ==
    /\ last.op = "create_employee"
    /\ last.auth.kind = "user"
    /\ last.auth.user.role = "hr"
    /\ last.employee.role = "manager"
    /\ last.status = 201
    /\ Len(employees) = last.rows_before + 1
    /\ employees[Len(employees)].role = "manager"

\* C25: after any interleaving of concurrent create_employee requests no two
\* records of the store share a username.
C25_UsernamesStayUnique ==
    \A i, j \in 1..Len(employees) :
        i # j => employees[i].username # employees[j].username

ProfileOps == {"update_my_profile", "admin_update_employee_profile"}

\* the id the update of `last` is aimed at
TargetId(l) ==
    IF l.op = "update_my_profile" THEN l.auth.user.id ELSE l.employee_id

\* the caller of `last` passed the route's authentication and role checks
PassedGate(l) ==
    /\ l.auth.kind = "user"
    /\ l.op = "admin_update_employee_profile" => l.auth.user.role \in PrivilegedRoles

\* C26: update_my_profile and admin_update_employee_profile add and remove no
\* record and change no field other than first_name, last_name, job_title,
\* department, email and phone; a record they change is the caller's own,
\* respectively the one with the given id; a successful update wrote the
\* fields it set to exactly one record; an update with no fields set writes
\* nothing and is answered 400 to a caller the route admits.
C26_ProfileUpdateFrame ==
    [][last'.op \in ProfileOps =>
        /\ Len(employees') = Len(employees)
        /\ \A i \in 1..Len(employees) :
              /\ DOMAIN employees'[i] = DOMAIN employees[i]
              /\ \A f \in DOMAIN employees[i] \ ProfileFields :
                    employees'[i][f] = employees[i][f]
              /\ employees'[i] # employees[i] =>
                    /\ PassedGate(last')
                    /\ employees[i].id = TargetId(last')
        /\ last'.status = 200 =>
              /\ Cardinality({i \in 1..Len(employees) :
                                employees[i].id = TargetId(last')}) = 1
              /\ \A i \in 1..Len(employees) :
                    employees[i].id = TargetId(last') =>
                        \A f \in DOMAIN last'.payload :
                            employees'[i][f] = last'.payload[f]
        /\ DOMAIN last'.payload = {} =>
              /\ employees' = employees
              /\ PassedGate(last') => last'.status = 400]_vars

C26_Witness ==
    /\ last.op = "admin_update_employee_profile"
    /\ last.status = 200
    /\ Len(employees) = 2
    /\ last.employee_id # last.auth.user.id
    /\ \E i, j \in 1..Len(employees) :
          /\ employees[i].id = last.employee_id
          /\ employees[i].job_title = "b"
          /\ employees[i].role = "employee"
          /\ employees[j].job_title = "a"

\* ---- rate-limit table claims

\* the step handles a request that presents a registered key: the clock steps
\* leave `last` as it was
KeyedRequestStep ==
    /\ now' = now
    /\ last'.op = "service_token"
    /\ last'.key # NoKey

\* the (service, origin) pair the request of `last` is counted on
ServiceAndOrigin(l) == <<ScanKeys(l.api_key, 1).service, l.host>>

\* C27: a rate-limit check for key (S, O) leaves the count and reset time of
\* every other entry unchanged and creates no entry but its own, and the
\* request is rejected only when the entry of (S, O) itself is inside its
\* window with RATE_LIMIT_MAX requests counted already.
C27_OtherKeysUntouched ==
    [][KeyedRequestStep =>
        LET key == ServiceAndOrigin(last') IN
        /\ DOMAIN rate_limit_store' = DOMAIN rate_limit_store \cup {key}
        /\ \A k \in DOMAIN rate_limit_store \ {key} :
              rate_limit_store'[k] = rate_limit_store[k]
        /\ last'.status = 429 =>
              /\ key \in DOMAIN rate_limit_store
              /\ rate_limit_store[key].count >= RATE_LIMIT_MAX
              /\ last'.at < rate_limit_store[key].reset_at]_vars

C27_Witness ==
    /\ Keyed
    /\ last.status = 200
    /\ \E k \in DOMAIN rate_limit_store :
          /\ k # last.key
          /\ rate_limit_store[k].count > RATE_LIMIT_MAX
          /\ last.at < rate_limit_store[k].reset_at

\* C28: a request on a key inside the key's window, allowed or rejected, adds
\* exactly 1 to the key's count and leaves its reset time as it was; the first
\* request of a key creates its entry with count 1; every entry has count >= 1
\* and no entry is ever removed.
C28_CountsEveryRequest ==
    [][/\ DOMAIN rate_limit_store \subseteq DOMAIN rate_limit_store'
       /\ \A k \in DOMAIN rate_limit_store' : rate_limit_store'[k].count >= 1
       /\ KeyedRequestStep =>
            LET key == last'.key IN
            /\ key \in DOMAIN rate_limit_store'
            /\ key \notin DOMAIN rate_limit_store =>
                  rate_limit_store'[key].count = 1
            /\ (/\ key \in DOMAIN rate_limit_store
                /\ last'.at < rate_limit_store[key].reset_at) =>
                  /\ rate_limit_store'[key].count = rate_limit_store[key].count + 1
                  /\ rate_limit_store'[key].reset_at = rate_limit_store[key].reset_at
                  /\ last'.status \in {200, 429}]_vars

C28_Witness ==
    /\ Keyed
    /\ last.status = 429
    /\ last.before # <<>>
    /\ last.before[1].count = RATE_LIMIT_MAX + 1
    /\ rate_limit_store[last.key].count = RATE_LIMIT_MAX + 2
    /\ rate_limit_store[last.key].reset_at = last.before[1].reset_at

\* ---- registry claims

\* the services whose configured key is unset or empty
UnkeyedServices == {sv \in DOMAIN SERVICE_API_KEYS : ~Truthy(SERVICE_API_KEYS[sv])}

\* C29: a registry entry whose configured key is unset or empty authenticates
\* no request: whatever X-Service-API-Key is presented, the empty string and
\* no header included, no token is issued for that service and no rate-limit
\* entry is opened for it.
C29_UnkeyedServiceNeverAuthenticates ==
    /\ last.op = "service_token" =>
          /\ last.status = 200 => last.body.service \notin UnkeyedServices
          /\ last.api_key \in {None, ""} => last.status = 401
    /\ \A k \in DOMAIN rate_limit_store : k[1] \notin UnkeyedServices

C29_Witness ==
    /\ last.op = "service_token"
    /\ last.api_key = ""
    /\ \E sv \in UnkeyedServices : SERVICE_API_KEYS[sv] = last.api_key
    /\ last.status = 401
    /\ last.key = NoKey

\* ---- confidentiality claims

\* the employee records in the body of the response of `last`
ReturnedRows(l) ==
    CASE l.op \in {"get_employee_by_id_or_name"} /\ l.shape = "one" -> <<l.body>>
      [] l.op \in {"get_employee_by_id_or_name"} /\ l.shape = "many" -> l.body
      [] l.op = "employee_mcp" /\ l.shape = "one" -> <<l.body.data>>
      [] l.op = "employee_mcp" /\ l.shape = "many" -> l.body.data
      [] l.op \in StoreWritingOps \cup {"get_my_profile"} /\ l.status \in {200, 201} ->
            <<l.body>>
      [] OTHER -> <<>>

\* C30: the records in the responses of GET /employees/api/employee,
\* POST /employees/api/mcp, create_employee, the /employees/me routes and the
\* admin profile route carry neither salary nor password_hash; a record with a
\* salary field is returned by update_salary only, and only to a caller of role
\* hr, manager or admin.
C30_OnlySalaryRouteShowsSalary ==
    \A i \in 1..Len(ReturnedRows(last)) :
        LET row == ReturnedRows(last)[i] IN
        /\ "password_hash" \notin DOMAIN row
        /\ "salary" \in DOMAIN row =>
              /\ last.op = "update_salary"
              /\ last.auth.kind = "user"
              /\ last.auth.user.role \in PrivilegedRoles

C30_Witness ==
    /\ last.op = "employee_mcp"
    /\ last.request.action = "list_employees"
    /\ last.service_token = None
    /\ last.shape = "many"
    /\ Len(last.body.data) = 2
    /\ \A i \in 1..Len(employees) : employees[i].salary # None
    /\ "username" \in DOMAIN last.body.data[1]

=============================================================================
